---- MODULE Spec2Model ----
(***************************************************************************)
(* A model of the c4 compiler in Rust: lexer::tokenize, parser::Parser and *)
(* vm::execute, in the integer-only variant (src/src/main.rs, "base") and  *)
(* the floating-point variant (src/unnamed/part_000, "bonus").             *)
(*                                                                         *)
(* Source text is a sequence of characters (one-character strings), an     *)
(* identifier's spelling is the sequence of its characters.  tokenize and  *)
(* the recursive-descent parser are operators computed as the code         *)
(* computes them; the dispatch loop of vm::execute is one action per       *)
(* opcode.                                                                 *)
(*                                                                         *)
(* TLC's integers are 32 bits wide, so the i64 of the code is modelled as  *)
(* the range -IntMax-1 .. IntMax.  An f64 is modelled in fixed point, as   *)
(* the integer number of tenths it holds.                                  *)
(***************************************************************************)
EXTENDS Integers, Sequences, FiniteSets, TLC

\* ------------------------------------------------------------------ bounds
\* The largest value of the modelled i64 (i64::MAX in the code).
IntMax == 32767
\* Integer literals of the generated expressions are 0 .. MaxLit.
MaxLit == 3
\* The stack of a run is at most FrameSize + MaxGrowth slots high: a loop
\* pushes its condition on every iteration and nothing pops it.
MaxGrowth == 12

IntMin == -IntMax - 1

\* ------------------------------------------------------------------- state
VARIABLES
    variant,  \* which of the two programs runs: "base" or "bonus"
    family,   \* the family of inputs the input was drawn from
    ast,      \* the program the input was written from
    source,   \* main's `source`: the text read from the file
    tokens,   \* main's `tokens`: Ok of lexer::tokenize
    opcodes,  \* main's `opcodes`: Ok of parser::parse
    phase,    \* where main is: "source", "tokens", "opcodes", "running", or
              \* ended: "ok", "lexerror", "parseerror", "runtimeerror", "panic"
    stack,    \* execute's `stack`
    pc,       \* execute's `pc`
    result,   \* the Ok value of vm::execute
    error,    \* the message of the Err (or panic) that ended the run
    parser,   \* the Parser of the last call of parser::parse, as the call left it
    run,      \* 1 in the first run of the pipeline on the input, 2 in the second
    first     \* what the first run produced, once it is over

\* ------------------------------------------------------------- characters
Digits == <<"0", "1", "2", "3", "4", "5", "6", "7", "8", "9">>
DigitSet == {Digits[i] : i \in 1..Len(Digits)}
Lower == {"a", "b", "c", "d", "e", "f", "g", "h", "i", "j", "k", "l", "m",
          "n", "o", "p", "q", "r", "s", "t", "u", "v", "w", "x", "y", "z"}
Upper == {"A", "B", "C", "D", "E", "F", "G", "H", "I", "J", "K", "L", "M",
          "N", "O", "P", "Q", "R", "S", "T", "U", "V", "W", "X", "Y", "Z"}
\* 'a'..='z' | 'A'..='Z' | '_'
IdentStart == Lower \cup Upper \cup {"_"}
\* Two characters outside ASCII, each written as the name of its code point:
\* a letter (U+00E9) and a decimal digit (U+0663).
NonAsciiLetter == "U+00E9"
NonAsciiDigit == "U+0663"
\* char::is_alphanumeric() is Unicode-aware; char::is_digit(10) is not.
IsAlphanumeric(c) == c \in Lower \cup Upper \cup DigitSet \cup {NonAsciiLetter, NonAsciiDigit}
IsDigit10(c) == c \in DigitSet
IsWhitespace(c) == c \in {" ", "\t", "\n", "\r"}

DigitVal(c) == (CHOOSE i \in 1..Len(Digits) : Digits[i] = c) - 1

\* ----------------------------------------------------------------- tokens
\* lexer::Token.  t is the variant's name, s the spelling of an Ident, n the
\* value of a Num (or the tenths of a Float).
Tok(t) == [t |-> t, s |-> <<>>, n |-> 0]
TIdent(s) == [t |-> "Ident", s |-> s, n |-> 0]
TNum(n) == [t |-> "Num", s |-> <<>>, n |-> n]
TFloat(n) == [t |-> "Float", s |-> <<>>, n |-> n]
TEOF == Tok("EOF")

\* The keyword table of tokenize.
Keyword(ident) ==
    CASE ident = <<"i", "n", "t">> -> Tok("Int")
      [] ident = <<"c", "h", "a", "r">> -> Tok("Char")
      [] ident = <<"r", "e", "t", "u", "r", "n">> -> Tok("Return")
      [] ident = <<"i", "f">> -> Tok("If")
      [] ident = <<"e", "l", "s", "e">> -> Tok("Else")
      [] ident = <<"w", "h", "i", "l", "e">> -> Tok("While")
      [] OTHER -> TIdent(ident)

\* The index after the run of ASCII digits that starts at i.
RECURSIVE DigitRunEnd(_, _)
DigitRunEnd(src, i) ==
    IF i <= Len(src) /\ IsDigit10(src[i]) THEN DigitRunEnd(src, i + 1) ELSE i

\* The index after the run of identifier characters that starts at i.
RECURSIVE IdentRunEnd(_, _)
IdentRunEnd(src, i) ==
    IF i <= Len(src) /\ (IsAlphanumeric(src[i]) \/ src[i] = "_")
    THEN IdentRunEnd(src, i + 1) ELSE i

\* A fault for LineEnd: the comment ends where it starts, so its text is
\* lexed as code.
LineEndAtOnce(src, i) == i

\* The index of the next "\n" at or after i (Len + 1 when there is none).
RECURSIVE LineEnd(_, _)
LineEnd(src, i) ==
    IF i <= Len(src) /\ src[i] # "\n" THEN LineEnd(src, i + 1) ELSE i

\* A fault for ParseI64: a value that does not fit is kept to the width
\* instead of being refused.
RECURSIVE ParseI64WrappingAcc(_, _, _)
ParseI64WrappingAcc(digs, i, acc) ==
    IF i > Len(digs) THEN acc
    ELSE ParseI64WrappingAcc(digs, i + 1, (acc * 10 + DigitVal(digs[i])) % (IntMax + 1))
ParseI64Wrapping(digs) == IF digs = <<>> THEN -1 ELSE ParseI64WrappingAcc(digs, 1, 0)

\* str::parse::<i64>() of a digit run: the value, or -1 for the Err it
\* returns when the value does not fit (an empty run is an Err as well).
RECURSIVE ParseI64Acc(_, _, _)
ParseI64Acc(digs, i, acc) ==
    IF i > Len(digs) THEN acc
    ELSE LET d == DigitVal(digs[i])
         IN IF acc > (IntMax - d) \div 10 THEN -1
            ELSE ParseI64Acc(digs, i + 1, acc * 10 + d)
ParseI64(digs) == IF digs = <<>> THEN -1 ELSE ParseI64Acc(digs, 1, 0)

\* str::parse::<f64>() of "<int>.<frac>", in tenths: the integer part and the
\* first digit of the fraction (an f64 does not overflow to an Err; a value
\* past the modelled range saturates at IntMax).
ParseF64(int, frac) ==
    LET ip == ParseI64(int)
        fd == IF frac = <<>> THEN 0 ELSE DigitVal(frac[1])
    IN IF ip < 0 \/ ip > (IntMax - fd) \div 10 THEN IntMax ELSE ip * 10 + fd

\* The state of tokenize's loop: the index i of chars.peek() in the text, the
\* tokens pushed so far, done once the loop has ended, ok until it returns Err.
LexStart == [i |-> 1, tokens |-> <<>>, done |-> FALSE, ok |-> TRUE]
\* tokens.push(tok), the cursor moved to next
Push(st, tok, next) == [st EXCEPT !.tokens = Append(@, tok), !.i = next]
\* return Err(..)
LexErr(st) == [st EXCEPT !.done = TRUE, !.ok = FALSE, !.tokens = <<>>]

\* The character at i is c (chars.peek() after the operator's first character).
PeekIs(src, i, c) == i <= Len(src) /\ src[i] = c

\* A numeric literal of tokenize that starts at st.i.
LexNumber(v, src, st) ==
    LET j == DigitRunEnd(src, st.i)
        digs == SubSeq(src, st.i, j - 1)
        k == DigitRunEnd(src, j + 1)
    IN IF v = "bonus" /\ PeekIs(src, j, ".")
       THEN Push(st, TFloat(ParseF64(digs, SubSeq(src, j + 1, k - 1))), k)
       ELSE IF ParseI64(digs) < 0 THEN LexErr(st)
            ELSE Push(st, TNum(ParseI64(digs)), j)

\* One iteration of `while let Some(&ch) = chars.peek()`, or the end of the
\* loop: tokens.push(Token::EOF); Ok(tokens).
LexStep(v, src, st) ==
    IF st.done THEN st
    ELSE IF st.i > Len(src) THEN [st EXCEPT !.tokens = Append(@, TEOF), !.done = TRUE]
    ELSE LET ch == src[st.i]
             i == st.i
         IN
      CASE IsWhitespace(ch) -> [st EXCEPT !.i = i + 1]
        [] IsDigit10(ch) -> LexNumber(v, src, st)
        [] ch \in IdentStart ->
             Push(st, Keyword(SubSeq(src, i, IdentRunEnd(src, i) - 1)), IdentRunEnd(src, i))
        [] ch = "+" -> Push(st, Tok("Plus"), i + 1)
        [] ch = "-" -> Push(st, Tok("Minus"), i + 1)
        [] ch = "*" -> Push(st, Tok("Mul"), i + 1)
        [] ch = "/" ->
             IF PeekIs(src, i + 1, "/") THEN [st EXCEPT !.i = LineEnd(src, i + 1)]
             ELSE Push(st, Tok("Div"), i + 1)
        [] ch = "=" ->
             IF PeekIs(src, i + 1, "=") THEN Push(st, Tok("Eq"), i + 2)
             ELSE Push(st, Tok("Assign"), i + 1)
        [] ch = "!" ->
             IF PeekIs(src, i + 1, "=") THEN Push(st, Tok("Ne"), i + 2)
             ELSE LexErr(st)
        [] ch = "<" ->
             IF PeekIs(src, i + 1, "=") THEN Push(st, Tok("Le"), i + 2)
             ELSE Push(st, Tok("Lt"), i + 1)
        [] ch = ">" ->
             IF PeekIs(src, i + 1, "=") THEN Push(st, Tok("Ge"), i + 2)
             ELSE Push(st, Tok("Gt"), i + 1)
        [] ch = ";" -> Push(st, Tok("Semicolon"), i + 1)
        [] ch = "," -> Push(st, Tok("Comma"), i + 1)
        [] ch = "(" -> Push(st, Tok("LParen"), i + 1)
        [] ch = ")" -> Push(st, Tok("RParen"), i + 1)
        [] ch = "{" -> Push(st, Tok("LBrace"), i + 1)
        [] ch = "}" -> Push(st, Tok("RBrace"), i + 1)
        [] OTHER -> LexErr(st)

\* n iterations of the loop from st (fewer when the loop ends before).
RECURSIVE LexRun(_, _, _, _)
LexRun(v, src, st, n) ==
    IF n = 0 THEN st
    ELSE IF n = 1 THEN LexStep(v, src, st)
    ELSE LET half == LexRun(v, src, st, n \div 2)
         IN IF half.done THEN half ELSE LexRun(v, src, half, n - (n \div 2))

\* lexer::tokenize of variant v: every iteration consumes a character, so
\* the loop has ended after Len(src) + 1 of them.
tokenize(v, src) ==
    LET st == LexRun(v, src, LexStart, Len(src) + 1)
    IN [ok |-> st.ok, tokens |-> st.tokens]

\* ----------------------------------------------------------------- opcodes
\* vm::Opcode.  arg is the operand (0 for an opcode that has none); the
\* operand of FImm is in tenths.
Op(o, a) == [op |-> o, arg |-> a]
OpRet == Op("Ret", 0)

\* ----------------------------------------------------------------- parser
Main == <<"m", "a", "i", "n">>
NoSymbols == [n \in {} |-> 0]

\* A fault for new: the parser of the call before is taken up again, with
\* its instructions, its scopes and its offset counter.
new_reusing(v, toks) ==
    [parser EXCEPT !.v = v, !.tokens = toks, !.pos = 0, !.err = ""]

\* Parser::new.  v is the variant the parser belongs to; err is "" until a
\* function returns Err, and then holds the kind of the message.  globals
\* and locals map a name to its Symbol's offset.
new(v, toks) ==
    [v |-> v, tokens |-> toks, pos |-> 0, opcodes |-> <<>>,
     globals |-> NoSymbols, locals |-> NoSymbols, local_offset |-> 0, err |-> ""]

\* Parser::current: tokens.get(pos).unwrap_or(&Token::EOF).
current(p) == IF p.pos < Len(p.tokens) THEN p.tokens[p.pos + 1] ELSE TEOF

\* self.pos += 1
Advance(p) == IF p.err # "" THEN p ELSE [p EXCEPT !.pos = @ + 1]
\* return Err(msg)
Fail(p, msg) == IF p.err # "" THEN p ELSE [p EXCEPT !.err = msg]
\* self.opcodes.push(op)
Emit(p, op) == IF p.err # "" THEN p ELSE [p EXCEPT !.opcodes = Append(@, op)]
\* self.opcodes[index] = op, index counted from 0
Patch(p, index, op) == IF p.err # "" THEN p ELSE [p EXCEPT !.opcodes[index + 1] = op]
\* HashMap::insert
Insert(map, name, offset) ==
    [n \in DOMAIN map \cup {name} |-> IF n = name THEN offset ELSE map[n]]

\* A fault for expect: a token that is not the expected one is left where
\* it is and parsing goes on.
expect_lenient(p, t) ==
    IF p.err # "" THEN p
    ELSE IF current(p) = Tok(t) THEN Advance(p) ELSE p

\* Parser::expect (with eat): consume the token or return Err.
expect(p, t) ==
    IF p.err # "" THEN p
    ELSE IF current(p) = Tok(t) THEN Advance(p) ELSE Fail(p, "Expected")

\* The tokens that start a declaration: Token::Int in the base variant,
\* Token::Int | Token::Char in the bonus variant.
TypeTokens(v) == IF v = "bonus" THEN {"Int", "Char"} ELSE {"Int"}

\* The push-integer opcode: Imm in the base variant, IImm in the bonus one.
ImmOp(v) == IF v = "bonus" THEN "IImm" ELSE "Imm"

RECURSIVE parse_stmt(_), StmtLoop(_), parse_if(_), parse_while(_),
          parse_assignment(_), parse_additive(_), AdditiveLoop(_),
          parse_term(_), TermLoop(_), parse_factor(_), DeclLoop(_),
          parse_factor_idle(_), ProgramLoop(_), SkipLoop(_)

\* Parser::parse_expr
parse_expr(p) == parse_assignment(p)

\* The store emitted by parse_assignment: locals first, then globals.
EmitStore(p, ident) ==
    IF p.err # "" THEN p
    ELSE IF ident \in DOMAIN p.locals THEN Emit(p, Op("St", p.locals[ident]))
    ELSE IF ident \in DOMAIN p.globals THEN Emit(p, Op("St", p.globals[ident]))
    ELSE Fail(p, "Undefined variable")

\* Parser::parse_assignment: ident '=' assignment, or (cursor restored) an
\* additive expression.
parse_assignment(p) ==
    IF p.err # "" THEN p
    ELSE IF current(p).t = "Ident" /\ current(Advance(p)) = Tok("Assign")
         THEN EmitStore(parse_assignment(Advance(Advance(p))), current(p).s)
         ELSE parse_additive(p)

\* while let Token::Plus | Token::Minus = self.current()
AdditiveLoop(p) ==
    IF p.err # "" THEN p
    ELSE IF current(p).t \in {"Plus", "Minus"}
         THEN AdditiveLoop(Emit(parse_term(Advance(p)),
                                IF current(p).t = "Plus" THEN Op("Add", 0) ELSE Op("Sub", 0)))
         ELSE p

\* A fault for parse_additive: one level for the four operators, each
\* applied as it is met, left to right.
RECURSIVE FlatLoop(_)
FlatLoop(p) ==
    IF p.err # "" THEN p
    ELSE IF current(p).t \in {"Plus", "Minus", "Mul", "Div"}
         THEN FlatLoop(Emit(parse_factor(Advance(p)),
                            Op(CASE current(p).t = "Plus" -> "Add"
                                 [] current(p).t = "Minus" -> "Sub"
                                 [] current(p).t = "Mul" -> "Mul"
                                 [] current(p).t = "Div" -> "Div", 0)))
         ELSE p
parse_additive_flat(p) == FlatLoop(parse_factor(p))

\* Parser::parse_additive
parse_additive(p) == AdditiveLoop(parse_term(p))

\* while let Token::Mul | Token::Div = self.current()
TermLoop(p) ==
    IF p.err # "" THEN p
    ELSE IF current(p).t \in {"Mul", "Div"}
         THEN TermLoop(Emit(parse_factor(Advance(p)),
                            IF current(p).t = "Mul" THEN Op("Mul", 0) ELSE Op("Div", 0)))
         ELSE p

\* Parser::parse_term
parse_term(p) == TermLoop(parse_factor(p))

\* A fault for EmitLoad: a name in no scope is read from offset 0.
EmitLoadAnyName(p, name) ==
    IF name \in DOMAIN p.locals THEN Emit(p, Op("Ld", p.locals[name]))
    ELSE IF name \in DOMAIN p.globals THEN Emit(p, Op("Ld", p.globals[name]))
    ELSE Emit(p, Op("Ld", 0))

\* A fault for EmitLoad: the global scope is searched before the local one.
EmitLoadGlobalFirst(p, name) ==
    IF name \in DOMAIN p.globals THEN Emit(p, Op("Ld", p.globals[name]))
    ELSE IF name \in DOMAIN p.locals THEN Emit(p, Op("Ld", p.locals[name]))
    ELSE Fail(p, "Undefined variable")

\* The load emitted by parse_factor for an identifier.
EmitLoad(p, name) ==
    IF name \in DOMAIN p.locals THEN Emit(p, Op("Ld", p.locals[name]))
    ELSE IF name \in DOMAIN p.globals THEN Emit(p, Op("Ld", p.globals[name]))
    ELSE Fail(p, "Undefined variable")

\* A fault for parse_factor: a token that begins no factor is left where
\* it is and is no error.
parse_factor_idle(p) ==
    IF p.err # "" THEN p
    ELSE CASE current(p).t = "Num" -> Emit(Advance(p), Op(ImmOp(p.v), current(p).n))
           [] current(p).t = "Float" /\ p.v = "bonus" -> Emit(Advance(p), Op("FImm", current(p).n))
           [] current(p).t = "Ident" -> EmitLoad(Advance(p), current(p).s)
           [] current(p).t = "LParen" -> expect(parse_expr(Advance(p)), "RParen")
           [] OTHER -> p

\* Parser::parse_factor
parse_factor(p) ==
    IF p.err # "" THEN p
    ELSE CASE current(p).t = "Num" -> Emit(Advance(p), Op(ImmOp(p.v), current(p).n))
           [] current(p).t = "Float" /\ p.v = "bonus" -> Emit(Advance(p), Op("FImm", current(p).n))
           [] current(p).t = "Ident" -> EmitLoad(Advance(p), current(p).s)
           [] current(p).t = "LParen" -> expect(parse_expr(Advance(p)), "RParen")
           [] OTHER -> Fail(p, "Unexpected token in factor")

\* while self.current() != &Token::RBrace { self.parse_stmt()?; }
StmtLoop(p) ==
    IF p.err # "" THEN p
    ELSE IF current(p) = Tok("RBrace") THEN p ELSE StmtLoop(parse_stmt(p))

\* A fault for DeclLoop: a name that is declared already keeps its offset
\* and takes no new one.
DeclLoopReusing(p) ==
    IF p.err # "" THEN p
    ELSE IF current(p).t = "Ident"
         THEN LET again == current(p).s \in DOMAIN p.locals
                  q == IF again THEN Advance(p)
                       ELSE [Advance(p) EXCEPT
                               !.local_offset = p.local_offset + 1,
                               !.locals = Insert(p.locals, current(p).s, p.local_offset + 1)]
              IN IF current(q) = Tok("Comma") THEN DeclLoop(Advance(q)) ELSE q
         ELSE Fail(p, "Expected identifier in local declaration")

\* The declarator loop of parse_local_decl.
DeclLoop(p) ==
    IF p.err # "" THEN p
    ELSE IF current(p).t = "Ident"
         THEN LET q == [Advance(p) EXCEPT
                          !.local_offset = p.local_offset + 1,
                          !.locals = Insert(p.locals, current(p).s, p.local_offset + 1)]
              IN IF current(q) = Tok("Comma") THEN DeclLoop(Advance(q)) ELSE q
         ELSE Fail(p, "Expected identifier in local declaration")

\* Parser::parse_local_decl
parse_local_decl(p) == expect(DeclLoop(Advance(p)), "Semicolon")

\* A fault for parse_if: the Jz of an if with an else is given the address
\* of the Jmp, not the address after it.
parse_if_early(p) ==
    LET p1 == expect(parse_expr(expect(Advance(p), "LParen")), "RParen")
        jz_index == Len(p1.opcodes)
        p2 == parse_stmt(Emit(p1, Op("Jz", 0)))
        p3 == Advance(p2)
        jmp_index == Len(p3.opcodes)
        p4 == Emit(p3, Op("Jmp", 0))
        p5 == parse_stmt(Patch(p4, jz_index, Op("Jz", jmp_index)))
        end_addr == Len(p5.opcodes)
    IN IF p2.err # "" THEN p2
       ELSE IF current(p2) = Tok("Else")
            THEN Patch(p5, jmp_index, Op("Jmp", end_addr))
            ELSE Patch(p2, jz_index, Op("Jz", Len(p2.opcodes)))

\* Parser::parse_if.  jz_index and jmp_index are lengths of the opcode
\* sequence, that is, indices counted from 0.
parse_if(p) ==
    LET p1 == expect(parse_expr(expect(Advance(p), "LParen")), "RParen")
        jz_index == Len(p1.opcodes)
        p2 == parse_stmt(Emit(p1, Op("Jz", 0)))
        p3 == Advance(p2)
        jmp_index == Len(p3.opcodes)
        p4 == Emit(p3, Op("Jmp", 0))
        else_addr == Len(p4.opcodes)
        p5 == parse_stmt(Patch(p4, jz_index, Op("Jz", else_addr)))
        end_addr == Len(p5.opcodes)
    IN IF p2.err # "" THEN p2
       ELSE IF current(p2) = Tok("Else")
            THEN Patch(p5, jmp_index, Op("Jmp", end_addr))
            ELSE Patch(p2, jz_index, Op("Jz", Len(p2.opcodes)))

\* A fault for parse_while: the loop start is recorded after the condition
\* has been emitted.
parse_while_late(p) ==
    LET p1 == expect(parse_expr(expect(Advance(p), "LParen")), "RParen")
        loop_start == Len(p1.opcodes)
        jz_index == Len(p1.opcodes)
        p2 == Emit(parse_stmt(Emit(p1, Op("Jz", 0))), Op("Jmp", loop_start))
        loop_end == Len(p2.opcodes)
    IN Patch(p2, jz_index, Op("Jz", loop_end))

\* Parser::parse_while
parse_while(p) ==
    LET p0 == Advance(p)
        loop_start == Len(p0.opcodes)
        p1 == expect(parse_expr(expect(p0, "LParen")), "RParen")
        jz_index == Len(p1.opcodes)
        p2 == Emit(parse_stmt(Emit(p1, Op("Jz", 0))), Op("Jmp", loop_start))
        loop_end == Len(p2.opcodes)
    IN Patch(p2, jz_index, Op("Jz", loop_end))

\* A fault for parse_stmt: a block has a scope of its own, which ends, with
\* its offsets, at the closing brace.
parse_stmt_scoped(p) ==
    IF p.err # "" THEN p
    ELSE CASE current(p).t = "Return" ->
                Emit(expect(parse_expr(Advance(p)), "Semicolon"), OpRet)
           [] current(p).t = "If" -> parse_if(p)
           [] current(p).t = "While" -> parse_while(p)
           [] current(p).t = "LBrace" ->
                LET q == expect(StmtLoop(Advance(p)), "RBrace")
                IN IF q.err # "" THEN q
                   ELSE [q EXCEPT !.locals = p.locals, !.local_offset = p.local_offset]
           [] current(p).t \in TypeTokens(p.v) -> parse_local_decl(p)
           [] OTHER -> expect(parse_expr(p), "Semicolon")

\* Parser::parse_stmt
parse_stmt(p) ==
    IF p.err # "" THEN p
    ELSE CASE current(p).t = "Return" ->
                Emit(expect(parse_expr(Advance(p)), "Semicolon"), OpRet)
           [] current(p).t = "If" -> parse_if(p)
           [] current(p).t = "While" -> parse_while(p)
           [] current(p).t = "LBrace" -> expect(StmtLoop(Advance(p)), "RBrace")
           [] current(p).t \in TypeTokens(p.v) -> parse_local_decl(p)
           [] OTHER -> expect(parse_expr(p), "Semicolon")

\* A fault for FunctionDef: no Ret is pushed after the body.
FunctionDefNoRet(p) ==
    LET p1 == expect(expect(p, "RParen"), "LBrace")
        p2 == IF p1.err # "" THEN p1
              ELSE [p1 EXCEPT !.locals = NoSymbols, !.local_offset = 0]
    IN expect(StmtLoop(p2), "RBrace")

\* The function definition of parse_program, after "main" and '(' : the
\* header, a fresh local scope, the body and the implicit Ret.
FunctionDef(p) ==
    LET p1 == expect(expect(p, "RParen"), "LBrace")
        p2 == IF p1.err # "" THEN p1
              ELSE [p1 EXCEPT !.locals = NoSymbols, !.local_offset = 0]
    IN Emit(expect(StmtLoop(p2), "RBrace"), OpRet)

\* while current != Semicolon && current != EOF { self.pos += 1; }
SkipLoop(p) ==
    IF current(p) # Tok("Semicolon") /\ current(p) # TEOF
    THEN SkipLoop(Advance(p)) ELSE p

\* A fault for GlobalDecl: every global has an offset of its own, counted
\* from 0.
GlobalDeclCounting(p, ident) ==
    expect(SkipLoop([p EXCEPT !.globals =
                       Insert(p.globals, ident, Cardinality(DOMAIN p.globals))]), "Semicolon")

\* The global variable declaration of parse_program, after the identifier.
GlobalDecl(p, ident) ==
    expect(SkipLoop([p EXCEPT !.globals = Insert(p.globals, ident, 0)]), "Semicolon")

\* One iteration of the top-level loop of parse_program.
ProgramItem(p) ==
    IF current(p).t \in TypeTokens(p.v)
    THEN LET p1 == Advance(p)
             p2 == Advance(p1)
         IN IF current(p1).t = "Ident"
            THEN IF current(p2) = Tok("LParen")
                 THEN IF current(p1).s # Main
                      THEN Fail(p2, "Only main function is supported")
                      ELSE FunctionDef(Advance(p2))
                 ELSE GlobalDecl(p2, current(p1).s)
            ELSE Fail(p1, "Expected identifier after type")
    ELSE Fail(p, "Unexpected token at global scope")
\* while self.current() != &Token::EOF
ProgramLoop(p) ==
    IF p.err # "" \/ current(p) = TEOF THEN p ELSE ProgramLoop(ProgramItem(p))

\* Parser::parse_program
parse_program(p) == ProgramLoop(p)

\* parser::parse: Ok(opcodes), or Err and no opcodes.
parse(v, toks) ==
    LET p == parse_program(new(v, toks))
    IN [ok |-> p.err = "", opcodes |-> IF p.err = "" THEN p.opcodes ELSE <<>>, parser |-> p]

\* --------------------------------------------------------------------- vm
\* stack.resize(32, 0): the slots vm::execute of the base variant reserves.
FrameSize == 32

\* vm::Value.  The base variant's stack holds i64 only, which is the tag
\* "Int" throughout; a Float holds its tenths.
IntVal(n) == [tag |-> "Int", v |-> n]
FloatVal(n) == [tag |-> "Float", v |-> n]

\* A fault for Frame: no slot is reserved in either variant.
NoFrame(v) == <<>>

\* The stack vm::execute starts with: 32 zeros in the base variant, empty in
\* the bonus variant.
Frame(v) == IF v = "base" THEN [i \in 1..FrameSize |-> IntVal(0)] ELSE <<>>

\* The bound of the model on the stack's height.
StackCap(v) == Len(Frame(v)) + MaxGrowth

Abs(x) == IF x < 0 THEN -x ELSE x
\* A fault for TruncDiv: the quotient rounded toward minus infinity.
FloorDiv(a, b) == a \div b

\* The / of Rust's integers: the quotient truncated toward zero.
TruncDiv(a, b) ==
    IF (a >= 0) = (b > 0) THEN Abs(a) \div Abs(b) ELSE -(Abs(a) \div Abs(b))

\* An i64 result kept to its width (two's complement wrap-around).
Wrap(x) == ((x - IntMin) % (2 * (IntMax + 1))) + IntMin
InRange(x) == IntMin <= x /\ x <= IntMax

\* A fault for IntRaw: the operands taken in the order they are popped.
IntRawSwapped(op, x, y) ==
    CASE op = "Add" -> y + x
      [] op = "Sub" -> y - x
      [] op = "Mul" -> y * x
      [] op = "Div" -> IF x # 0 THEN TruncDiv(y, x) ELSE 0

\* x op y on two i64, before any overflow handling.
IntRaw(op, x, y) ==
    CASE op = "Add" -> x + y
      [] op = "Sub" -> x - y
      [] op = "Mul" -> x * y
      [] op = "Div" -> TruncDiv(x, y)

\* The f64 values that are no number of tenths, as tenths out of range:
\* x / 0.0 is an infinity of the sign of x, and 0.0 / 0.0 is NaN.
Infinity == 100 * (IntMax + 1)
NaN == Infinity + 1
\* x op y on two f64, in tenths.
FloatRaw(op, x, y) ==
    CASE op = "Add" -> x + y
      [] op = "Sub" -> x - y
      [] op = "Mul" -> TruncDiv(x * y, 10)
      [] op = "Div" -> IF y # 0 THEN TruncDiv(x * 10, y)
                       ELSE IF x > 0 THEN Infinity
                       ELSE IF x < 0 THEN -Infinity
                       ELSE NaN

\* A fault for Outcomes: an integer operand is converted to a float when
\* the other operand is one.
OutcomesCoercing(op, a, b) ==
    IF a.tag = "Int" /\ b.tag = "Int"
    THEN {[kind |-> "push", val |-> IntVal(Wrap(IntRaw(op, a.v, IF b.v = 0 THEN 1 ELSE b.v))),
           msg |-> ""]}
    ELSE {[kind |-> "push",
           val |-> FloatVal(FloatRaw(op, IF a.tag = "Int" THEN 10 * a.v ELSE a.v,
                                         IF b.tag = "Int" THEN 10 * b.v ELSE b.v)),
           msg |-> ""]}

\* The outcomes of a (left) op b (right), both popped: a value to push, a
\* returned Err, or a panic.  An i64 result out of range panics in a build
\* with overflow checks and wraps in one without; i64::MIN / -1 and an i64
\* divided by 0 panic in every build.
Outcomes(op, a, b) ==
    IF a.tag = "Int" /\ b.tag = "Int"
    THEN IF op = "Div" /\ b.v = 0
         THEN {[kind |-> "panic", val |-> IntVal(0), msg |-> "attempt to divide by zero"]}
         ELSE IF InRange(IntRaw(op, a.v, b.v))
         THEN {[kind |-> "push", val |-> IntVal(IntRaw(op, a.v, b.v)), msg |-> ""]}
         ELSE IF op = "Div"
              THEN {[kind |-> "panic", val |-> IntVal(0), msg |-> "attempt to divide with overflow"]}
              ELSE {[kind |-> "panic", val |-> IntVal(0), msg |-> "arithmetic overflow"],
                    [kind |-> "push", val |-> IntVal(Wrap(IntRaw(op, a.v, b.v))), msg |-> ""]}
    ELSE IF a.tag = "Float" /\ b.tag = "Float"
         THEN {[kind |-> "push", val |-> FloatVal(FloatRaw(op, a.v, b.v)), msg |-> ""]}
         ELSE {[kind |-> "err", val |-> IntVal(0), msg |-> "Type mismatch in " \o op]}

\* A fault for IsZero: only the integer 0 is a zero divisor.
IsZeroInt(val) == val.tag = "Int" /\ val.v = 0

\* b == 0 of the base variant, Value::Int(0) | Value::Float(0.0) of the bonus
\* one (the tenths of 0.0 and of -0.0 are both 0).
IsZero(val) == val.v = 0

\* (offset as usize) < stack.len(): a negative offset casts to a huge usize.
ValidOffset(offset, len) == 0 <= offset /\ offset < len

\* ---------------------------------------------------------------- programs
\* A program is a sequence of top-level items, an item a global declaration
\* or a function definition; statements and expressions are trees.
Num(n) == [k |-> "num", n |-> n]
Flt(n) == [k |-> "flt", n |-> n]
Var(s) == [k |-> "var", s |-> s]
Bin(op, l, r) == [k |-> "bin", op |-> op, l |-> l, r |-> r]
Par(e) == [k |-> "par", e |-> e]
Asg(s, e) == [k |-> "asg", s |-> s, e |-> e]
Return(e) == [k |-> "return", e |-> e]
If(c, t) == [k |-> "if", c |-> c, t |-> t]
IfElse(c, t, f) == [k |-> "ifelse", c |-> c, t |-> t, f |-> f]
While(c, b) == [k |-> "while", c |-> c, b |-> b]
Block(ss) == [k |-> "block", ss |-> ss]
Decl(names) == [k |-> "decl", names |-> names]
ExprStmt(e) == [k |-> "expr", e |-> e]
Global(s) == [k |-> "global", s |-> s]
Func(s, body) == [k |-> "func", s |-> s, body |-> body]
MainOf(body) == <<Func(Main, body)>>

RECURSIVE ExprToks(_), StmtToks(_), StmtsToks(_), NamesToks(_), ItemsToks(_)
\* The tokens of an expression.
ExprToks(e) ==
    CASE e.k = "num" -> <<TNum(e.n)>>
      [] e.k = "flt" -> <<TFloat(e.n)>>
      [] e.k = "var" -> <<TIdent(e.s)>>
      [] e.k = "bin" -> ExprToks(e.l) \o <<Tok(e.op)>> \o ExprToks(e.r)
      [] e.k = "par" -> <<Tok("LParen")>> \o ExprToks(e.e) \o <<Tok("RParen")>>
      [] e.k = "asg" -> <<TIdent(e.s), Tok("Assign")>> \o ExprToks(e.e)
NamesToks(names) ==
    IF Len(names) = 1 THEN <<TIdent(names[1])>>
    ELSE <<TIdent(names[1]), Tok("Comma")>> \o NamesToks(Tail(names))
\* The tokens of a statement.
StmtToks(s) ==
    CASE s.k = "return" -> <<Tok("Return")>> \o ExprToks(s.e) \o <<Tok("Semicolon")>>
      [] s.k = "if" ->
           <<Tok("If"), Tok("LParen")>> \o ExprToks(s.c) \o <<Tok("RParen")>> \o StmtToks(s.t)
      [] s.k = "ifelse" ->
           <<Tok("If"), Tok("LParen")>> \o ExprToks(s.c) \o <<Tok("RParen")>> \o StmtToks(s.t)
             \o <<Tok("Else")>> \o StmtToks(s.f)
      [] s.k = "while" ->
           <<Tok("While"), Tok("LParen")>> \o ExprToks(s.c) \o <<Tok("RParen")>> \o StmtToks(s.b)
      [] s.k = "block" -> <<Tok("LBrace")>> \o StmtsToks(s.ss) \o <<Tok("RBrace")>>
      [] s.k = "decl" -> <<Tok("Int")>> \o NamesToks(s.names) \o <<Tok("Semicolon")>>
      [] s.k = "expr" -> ExprToks(s.e) \o <<Tok("Semicolon")>>
StmtsToks(ss) == IF ss = <<>> THEN <<>> ELSE StmtToks(Head(ss)) \o StmtsToks(Tail(ss))
\* The tokens of a program, without the EOF that tokenize appends.
ItemsToks(items) ==
    IF items = <<>> THEN <<>>
    ELSE LET it == Head(items)
         IN (IF it.k = "global" THEN <<Tok("Int"), TIdent(it.s), Tok("Semicolon")>>
             ELSE <<Tok("Int"), TIdent(it.s), Tok("LParen"), Tok("RParen"), Tok("LBrace")>>
                    \o StmtsToks(it.body) \o <<Tok("RBrace")>>)
            \o ItemsToks(Tail(items))

\* The decimal digits of n >= 0.
RECURSIVE NumChars(_)
NumChars(n) == IF n < 10 THEN <<Digits[n + 1]>> ELSE Append(NumChars(n \div 10), Digits[(n % 10) + 1])

\* The spelling of a token in source text.
Spell(tok) ==
    CASE tok.t = "Int" -> <<"i", "n", "t">>
      [] tok.t = "Char" -> <<"c", "h", "a", "r">>
      [] tok.t = "Return" -> <<"r", "e", "t", "u", "r", "n">>
      [] tok.t = "If" -> <<"i", "f">>
      [] tok.t = "Else" -> <<"e", "l", "s", "e">>
      [] tok.t = "While" -> <<"w", "h", "i", "l", "e">>
      [] tok.t = "Ident" -> tok.s
      [] tok.t = "Num" -> NumChars(tok.n)
      [] tok.t = "Float" -> NumChars(tok.n \div 10) \o <<".">> \o NumChars(tok.n % 10)
      [] tok.t = "Plus" -> <<"+">>
      [] tok.t = "Minus" -> <<"-">>
      [] tok.t = "Mul" -> <<"*">>
      [] tok.t = "Div" -> <<"/">>
      [] tok.t = "Assign" -> <<"=">>
      [] tok.t = "Eq" -> <<"=", "=">>
      [] tok.t = "Ne" -> <<"!", "=">>
      [] tok.t = "Lt" -> <<"<">>
      [] tok.t = "Gt" -> <<">">>
      [] tok.t = "Le" -> <<"<", "=">>
      [] tok.t = "Ge" -> <<">", "=">>
      [] tok.t = "Semicolon" -> <<";">>
      [] tok.t = "Comma" -> <<",">>
      [] tok.t = "LParen" -> <<"(">>
      [] tok.t = "RParen" -> <<")">>
      [] tok.t = "LBrace" -> <<"{">>
      [] tok.t = "RBrace" -> <<"}">>

\* The spellings of toks, with sep between any two of them (the two halves
\* of toks joined, and sep between them).
RECURSIVE Join(_, _)
Join(toks, sep) ==
    IF toks = <<>> THEN <<>>
    ELSE IF Len(toks) = 1 THEN Spell(toks[1])
    ELSE Join(SubSeq(toks, 1, Len(toks) \div 2), sep) \o sep
           \o Join(SubSeq(toks, (Len(toks) \div 2) + 1, Len(toks)), sep)

\* The source text of a program: its tokens, one space between them.
TextOf(items) == Join(ItemsToks(items), <<" ">>)

\* ------------------------------------------------------------------ inputs
\* An input of the pipeline: the program it was written from (ast, <<>> when
\* there is none), and either its source text or, for an input handed to
\* parser::parse directly, its tokens.
SourceInput(fam, prog, text) ==
    [family |-> fam, given |-> "source", ast |-> prog, text |-> text, toks |-> <<>>,
     ops |-> <<>>]
TokenInput(fam, prog, toks) ==
    [family |-> fam, given |-> "tokens", ast |-> prog, text |-> <<>>, toks |-> toks,
     ops |-> <<>>]
\* An input handed to vm::execute directly: a hand-built opcode sequence.
OpcodeInput(fam, ops) ==
    [family |-> fam, given |-> "opcodes", ast |-> <<>>, text |-> <<>>, toks |-> <<>>,
     ops |-> ops]

\* Whitespace and comments.  The comment holds text that would change the
\* program if it were not skipped.
Blanks == {<<" ">>, <<"\n">>, <<"\t", "\r", "\n">>}
Comment == <<"/", "/", " ", "r", "e", "t", "u", "r", "n", " ", "9", ";", "\n">>
Separators == Blanks \cup {Comment, <<" ">> \o Comment}
Leading == {<<>>} \cup Separators
\* A comment that ends the text has no "\n" after it.
Trailing == {<<>>, <<" ">>, <<"\n">>, Comment, <<"/", "/", "}">>}

\* Integer literals as written and the value each denotes.
Literals ==
    {[digits |-> <<"0">>, value |-> 0],
     [digits |-> <<"7">>, value |-> 7],
     [digits |-> <<"4", "2">>, value |-> 42],
     [digits |-> <<"0", "0", "7">>, value |-> 7],
     [digits |-> NumChars(IntMax), value |-> IntMax]}

\* `int main(){ return <literal>; }` with sep between the tokens.
LiteralText(digits, sep) ==
    Join(<<Tok("Int"), TIdent(Main), Tok("LParen"), Tok("RParen"), Tok("LBrace"), Tok("Return")>>, sep)
      \o sep \o digits \o sep \o Join(<<Tok("Semicolon"), Tok("RBrace")>>, sep)

LiteralInputs ==
    {SourceInput("literal", MainOf(<<Return(Num(l.value))>>),
                 pre \o LiteralText(l.digits, sep) \o post) :
       l \in Literals, pre \in Leading, sep \in Separators, post \in Trailing}

\* Expressions over the literals 0 .. MaxLit with at most two operators, in
\* the grammar's shape: an operand is parenthesised where the operator above
\* it binds as tight or tighter, and may be parenthesised anyway.
LitExprs == {Num(n) : n \in 0..MaxLit}
AllOps == {"Plus", "Minus", "Mul", "Div"}
Prec(op) == IF op \in {"Mul", "Div"} THEN 2 ELSE 1
OneOp == {Bin(op, a, b) : op \in AllOps, a \in LitExprs, b \in LitExprs}
LeftOperand(e, outer) == IF Prec(e.op) < Prec(outer) THEN Par(e) ELSE e
RightOperand(e, outer) == IF Prec(e.op) <= Prec(outer) THEN Par(e) ELSE e
TwoOps ==
    {Bin(op, LeftOperand(e, op), c) : op \in AllOps, e \in OneOp, c \in LitExprs}
      \cup {Bin(op, a, RightOperand(e, op)) : op \in AllOps, a \in LitExprs, e \in OneOp}
\* `2 + 3 * 4 - 6 / 2` of test_complex_expression.
ComplexExpression ==
    Bin("Minus", Bin("Plus", Num(2), Bin("Mul", Num(3), Num(4))), Bin("Div", Num(6), Num(2)))
MoreExprs ==
    {ComplexExpression,
     Par(Par(Num(1))),
     Bin("Div", Par(Bin("Minus", Num(1), Num(8))), Num(2)),
     Bin("Mul", Par(Bin("Plus", Num(1), Num(2))), Par(Bin("Minus", Num(1), Num(3)))),
     Bin("Div", Bin("Div", Num(42), Num(4)), Num(3)),
     Bin("Minus", Bin("Minus", Bin("Minus", Num(9), Num(4)), Num(3)), Num(2)),
     Bin("Plus", Num(IntMax), Num(1)),
     Bin("Mul", Num(IntMax), Num(2)),
     Bin("Minus", Bin("Minus", Num(0), Num(IntMax)), Num(2)),
     Bin("Div", Par(Bin("Minus", Bin("Minus", Num(0), Num(IntMax)), Num(1))),
                Par(Bin("Minus", Num(0), Num(1))))}
\* Expressions with floating-point literals (tenths).
FloatExprs ==
    {Flt(35),
     Bin("Plus", Flt(35), Flt(15)),
     Bin("Minus", Flt(35), Flt(15)),
     Bin("Mul", Flt(35), Flt(20)),
     Bin("Div", Flt(35), Flt(20)),
     Bin("Div", Flt(15), Flt(0)),
     Bin("Div", Num(1), Flt(0)),
     Bin("Div", Flt(15), Num(0)),
     Bin("Div", Flt(15), Par(Bin("Minus", Flt(5), Flt(5)))),
     Bin("Div", Flt(0), Flt(0)),
     Bin("Plus", Num(3), Flt(45)),
     Bin("Mul", Flt(45), Num(3))}
Exprs == LitExprs \cup OneOp \cup TwoOps \cup MoreExprs \cup FloatExprs

ExprInputs ==
    {SourceInput("expr", MainOf(<<Return(e)>>), TextOf(MainOf(<<Return(e)>>))) : e \in Exprs}

\* Names of variables: a, b, i, n are declared where they are used, g is a
\* global, u is used without a declaration.
A == <<"a">>
B == <<"b">>
I == <<"i">>
N == <<"n">>
G == <<"g">>
U == <<"u">>
Plus1(s) == Bin("Plus", Var(s), Num(1))
Minus1(s) == Bin("Minus", Var(s), Num(1))
\* 10 * x + y: one number that shows the values of two variables.
Both(x, y) == Bin("Plus", Bin("Mul", Var(x), Num(10)), Var(y))
ProgramInput(fam, items) == SourceInput(fam, items, TextOf(items))

\* Straight-line programs: `int a, b;`, one or two assignment statements
\* and a return.  test_multiple_variables is one of them.
AssignedExprs ==
    {Num(5), Num(10), Var(A), Var(B), Plus1(A), Bin("Plus", Var(A), Var(B)),
     Asg(A, Num(7)), Asg(B, Num(7))}
Assignments == {ExprStmt(Asg(x, e)) : x \in {A, B}, e \in AssignedExprs}
ReturnedExprs == {Var(A), Var(B), Bin("Plus", Var(A), Var(B))}
StraightBodies ==
    {<<Decl(<<A, B>>), s1, Return(r)>> : s1 \in Assignments, r \in ReturnedExprs}
      \cup {<<Decl(<<A, B>>), s1, s2, Return(r)>> :
              s1 \in Assignments, s2 \in Assignments, r \in ReturnedExprs}
StraightInputs == {ProgramInput("straight", MainOf(body)) : body \in StraightBodies}

\* Conditionals: `int a, b;`, an if statement and `return 10 * a + b;`.
Conditions ==
    {Num(0), Num(1), Var(A), Bin("Minus", Num(2), Num(2)), Asg(A, Num(1)), Asg(A, Num(0))}
Branches ==
    {Return(Num(1)), Return(Num(2)), ExprStmt(Asg(A, Plus1(A))),
     Block(<<ExprStmt(Asg(B, Plus1(B)))>>)}
\* test_nested_if_else is Nested(1, 0) of the first shape.
NestedIfs ==
    {IfElse(Num(c1), Block(<<IfElse(Num(c2), Block(<<Return(Num(1))>>), Block(<<Return(Num(2))>>))>>),
            Block(<<Return(Num(3))>>)) : c1 \in {0, 1}, c2 \in {0, 1}}
      \cup {IfElse(Num(c1), Return(Num(1)), IfElse(Num(c2), Return(Num(2)), Return(Num(3)))) :
              c1 \in {0, 1}, c2 \in {0, 1}}
      \cup {If(Num(c1), If(Var(A), ExprStmt(Asg(B, Num(2))))) : c1 \in {0, 1}}
IfStmts ==
    {IfElse(c, t, f) : c \in Conditions, t \in Branches, f \in Branches}
      \cup {If(c, t) : c \in Conditions, t \in Branches}
      \cup NestedIfs
IfInputs ==
    {ProgramInput("if", MainOf(<<Decl(<<A, B>>), s, Return(Both(A, B))>>)) : s \in IfStmts}

\* Loops: `int i, n; i = k;`, a while statement and `return 10 * n + i;`.
\* test_nested_while_loops is the nested body with k = 3 and condition i.
LoopConditions == {Var(I), Minus1(I), Num(0), Asg(I, Minus1(I))}
LoopBodies ==
    {ExprStmt(Asg(I, Minus1(I))),
     Block(<<ExprStmt(Asg(N, Plus1(N))), ExprStmt(Asg(I, Minus1(I)))>>),
     ExprStmt(Asg(N, Plus1(N))),
     Block(<<While(Minus1(I), Block(<<ExprStmt(Asg(I, Minus1(I)))>>)),
             ExprStmt(Asg(I, Num(0)))>>)}
WhileInputs ==
    {ProgramInput("while",
                  MainOf(<<Decl(<<I>>), Decl(<<N>>), ExprStmt(Asg(I, Num(k))), While(c, b),
                           Return(Both(N, I))>>)) :
       k \in 0..MaxLit, c \in LoopConditions, b \in LoopBodies}

\* Programs that use a name where it is not declared, and a few that use it
\* where it is.
ScopeBodies ==
    {<<Return(Var(U))>>,
     <<ExprStmt(Asg(U, Num(1))), Return(Num(0))>>,
     <<Decl(<<A>>), ExprStmt(Asg(A, Var(U))), Return(Var(A))>>,
     <<Decl(<<A>>), ExprStmt(Asg(A, Asg(U, Num(1)))), Return(Var(A))>>,
     <<ExprStmt(Asg(U, Var(U))), Return(Num(0))>>,
     <<If(Num(0), ExprStmt(Asg(U, Num(1)))), Return(Num(0))>>,
     <<While(Num(0), Block(<<ExprStmt(Var(U))>>)), Return(Num(0))>>,
     <<IfElse(Num(1), Return(Num(1)), Return(Var(U)))>>,
     <<Return(Bin("Plus", Num(1), Par(Bin("Mul", Num(2), Var(U)))))>>,
     <<ExprStmt(Asg(U, Num(1))), Decl(<<U>>), Return(Var(U))>>,
     <<Decl(<<A>>), ExprStmt(Asg(A, Var(U))), Decl(<<U>>), Return(Var(A))>>,
     <<Return(Num(0)), ExprStmt(Var(U))>>,
     <<Decl(<<U>>), ExprStmt(Asg(U, Num(1))), Return(Var(U))>>,
     <<Block(<<Decl(<<U>>)>>), ExprStmt(Asg(U, Num(4))), Return(Var(U))>>,
     <<ExprStmt(Var(Main))>>}
ScopePrograms ==
    {MainOf(body) : body \in ScopeBodies}
      \cup {<<Func(Main, <<Return(Var(G))>>), Global(G)>>,
            <<Global(G), Func(Main, <<ExprStmt(Asg(G, Num(1))), Return(Var(G))>>)>>,
            <<Global(G), Func(Main, <<Return(Bin("Plus", Var(G), Var(U)))>>)>>,
            <<Func(Main, <<Decl(<<A>>), Return(Var(A))>>), Func(Main, <<Return(Var(A))>>)>>,
            <<Func(Main, <<Decl(<<A>>), Return(Var(A))>>),
              Func(Main, <<Decl(<<A>>), Return(Var(A))>>)>>}
ScopeInputs == {ProgramInput("scope", items) : items \in ScopePrograms}

\* Programs with another top-level structure than one main.
TopLevelPrograms ==
    {<<>>,
     <<Global(G)>>,
     <<Global(G), Global(A)>>,
     <<Func(<<"f">>, <<Return(Num(0))>>)>>,
     <<Func(Main, <<Return(Num(1))>>), Func(<<"f">>, <<Return(Num(2))>>)>>,
     <<Func(<<"m", "a", "i", "n", "2">>, <<Return(Num(0))>>)>>,
     <<Func(Main, <<>>)>>,
     <<Func(Main, <<If(Num(0), Return(Num(1)))>>)>>,
     <<Func(Main, <<Decl(<<A>>), While(Var(A), ExprStmt(Asg(A, Num(0))))>>)>>,
     <<Func(Main, <<Return(Num(1))>>), Global(G)>>}
TopLevelInputs == {ProgramInput("toplevel", items) : items \in TopLevelPrograms}

\* Token sequences with one bracket too many or one too few: a well-formed
\* program with one bracket token inserted or one bracket token removed.
BracketTokens == {Tok("LParen"), Tok("RParen"), Tok("LBrace"), Tok("RBrace")}
InsertAt(toks, i, tok) == SubSeq(toks, 1, i - 1) \o <<tok>> \o SubSeq(toks, i, Len(toks))
RemoveAt(toks, i) == SubSeq(toks, 1, i - 1) \o SubSeq(toks, i + 1, Len(toks))
WellFormed ==
    {<<Global(G), Func(Main, <<Return(Bin("Mul", Par(Bin("Plus", Num(1), Num(2))), Num(3)))>>)>>,
     <<Func(Main, <<Decl(<<A>>),
                    IfElse(Var(A), Block(<<ExprStmt(Asg(A, Num(1)))>>), Block(<<Return(Num(2))>>)),
                    While(Minus1(A), ExprStmt(Asg(A, Minus1(A)))),
                    Return(Var(A))>>),
       Global(G)>>}
Mutations(toks) ==
    {InsertAt(toks, i, b) : i \in 1..(Len(toks) + 1), b \in BracketTokens}
      \cup {RemoveAt(toks, i) : i \in {j \in 1..Len(toks) : toks[j] \in BracketTokens}}
MutatedInputs ==
    UNION {{TokenInput("mutated", items, Append(toks, TEOF)) : toks \in Mutations(ItemsToks(items))} :
             items \in WellFormed}
\* `int main( { return 0; }` of test_invalid_syntax_error and
\* `int main() { return (5 + 2; }` of test_unmatched_parentheses.
InvalidSyntax ==
    <<Tok("Int"), TIdent(Main), Tok("LParen"), Tok("LBrace"), Tok("Return"), TNum(0),
      Tok("Semicolon"), Tok("RBrace")>>
UnmatchedParentheses ==
    <<Tok("Int"), TIdent(Main), Tok("LParen"), Tok("RParen"), Tok("LBrace"), Tok("Return"),
      Tok("LParen"), TNum(5), Tok("Plus"), TNum(2), Tok("Semicolon"), Tok("RBrace")>>
TestInputs ==
    {SourceInput("mutated", <<>>, Join(InvalidSyntax, <<" ">>)),
     SourceInput("mutated", <<>>, Join(UnmatchedParentheses, <<" ">>))}

\* Programs whose top-level declarations begin with `char`: a program with
\* one, two or three top-level items, the type of some of them char.
WithChar(toks, at) ==
    [i \in 1..Len(toks) |-> IF i \in at /\ toks[i] = Tok("Int") THEN Tok("Char") ELSE toks[i]]
CharTokens ==
    LET one == ItemsToks(<<Global(G), Func(Main, <<Return(Var(G))>>)>>)
        two == ItemsToks(<<Global(G), Global(A), Func(Main, <<Return(Var(A))>>)>>)
        tail == <<Tok("Int"), TIdent(G), Tok("Assign"), TNum(1), Tok("Semicolon")>>
                  \o ItemsToks(MainOf(<<Return(Num(2))>>))
    IN {WithChar(one, {1}), WithChar(one, {4}), WithChar(one, {1, 4}),
        WithChar(two, {1}), WithChar(two, {4}), WithChar(two, {1, 4, 7}),
        WithChar(tail, {1}),
        WithChar(ItemsToks(<<Global(G)>>), {1})}
CharInputs == {SourceInput("char", <<>>, Join(toks, <<" ">>)) : toks \in CharTokens}

\* The program of test_nested_while_loops.
NestedWhileLoops ==
    MainOf(<<Decl(<<I>>),
             ExprStmt(Asg(I, Num(3))),
             While(Var(I), Block(<<While(Minus1(I), Block(<<ExprStmt(Asg(I, Minus1(I)))>>)),
                                   ExprStmt(Asg(I, Num(0)))>>)),
             Return(Var(I))>>)
\* Sources that are one expression statement over two literals and nothing
\* else: `1 + 2;` of test_parse_int_expression, and as
\* test_parse_float_expression has it, with floats.
BareExpressions ==
    {<<l, Tok(o), r, Tok("Semicolon")>> :
       l \in {TNum(1), TNum(2)}, r \in {TNum(1), TNum(2)}, o \in {"Plus", "Minus", "Mul", "Div"}}
      \cup {<<l, Tok(o), r, Tok("Semicolon")>> :
              l \in {TFloat(35)}, r \in {TFloat(20), TFloat(5)}, o \in {"Plus", "Minus", "Mul", "Div"}}
ParserTestInputs ==
    {ProgramInput("nested", NestedWhileLoops)}
      \cup {SourceInput("bare", <<>>, Join(toks, <<" ">>)) : toks \in BareExpressions}
      \cup {SourceInput("bare", <<>>, <<"1", " ", "+", " ", "2", ";">>)}

\* Programs of expression statements: `int a;`, one or two expression
\* statements and `return 0;`.
StatementInputs ==
    LET exprs == {Num(1), Var(A), Plus1(A), Par(Bin("Mul", Num(2), Num(3))),
                  Asg(A, Num(2)), Asg(A, Plus1(A))}
    IN {ProgramInput("stmt", MainOf(<<Decl(<<A>>), ExprStmt(e), Return(Num(0))>>)) :
          e \in exprs}
         \cup {ProgramInput("stmt", MainOf(<<Decl(<<A>>), ExprStmt(e), ExprStmt(f),
                                             Return(Num(0))>>)) :
                 e \in exprs, f \in exprs}

\* Digit runs at and around the largest i64, with and without leading
\* zeros, in `int main(){ return <digits>; }`.
DigitRuns ==
    {<<"0">>, <<"0", "0">>, <<"9">>, NumChars(IntMax - 1), NumChars(IntMax),
     <<"0", "0">> \o NumChars(IntMax), NumChars(IntMax + 1), NumChars(IntMax + 2),
     <<"0">> \o NumChars(IntMax + 1), NumChars(IntMax) \o <<"0">>,
     NumChars(IntMax \div 10 + 1) \o <<"0">>, <<"9", "9", "9", "9", "9", "9">>}
DigitRunInputs == {SourceInput("digits", <<>>, LiteralText(d, <<" ">>)) : d \in DigitRuns}

\* Spellings in the place of a name in `int <name> ;`: identifiers, the
\* keywords, and spellings with a character that is no ASCII letter, digit
\* or underscore at the start or further on.
Spellings ==
    {<<"a">>, <<"_">>, <<"_", "x", "1">>, <<"A", "b", "_", "9">>, <<"i", "n", "t", "x">>,
     <<"i", "n", "t">>, <<"c", "h", "a", "r">>, <<"r", "e", "t", "u", "r", "n">>,
     <<"i", "f">>, <<"e", "l", "s", "e">>, <<"w", "h", "i", "l", "e">>,
     <<"a", NonAsciiLetter>>, <<"a", NonAsciiDigit>>, <<"x", NonAsciiLetter, "y">>,
     <<NonAsciiLetter, "a">>, <<NonAsciiDigit>>, <<"a", "$">>, <<"$">>, <<"a", "#", "b">>}
SpellingInputs ==
    {SourceInput("names", <<>>, <<"i", "n", "t", " ">> \o sp \o <<" ", ";">>) : sp \in Spellings}

\* Programs that declare a local more than once, in one declaration or in
\* several, with uses before and after.
DeclarationInputs ==
    {ProgramInput("decls", MainOf(body)) :
       body \in {<<Decl(<<A>>), ExprStmt(Asg(A, Num(1))), Decl(<<A>>), ExprStmt(Asg(A, Num(2))),
                   Return(Var(A))>>,
                 <<Decl(<<A, B, A>>), ExprStmt(Asg(A, Num(1))), ExprStmt(Asg(B, Num(2))),
                   Return(Both(A, B))>>,
                 <<Decl(<<A>>), Decl(<<B>>), Decl(<<A>>), Decl(<<B>>), ExprStmt(Asg(B, Num(3))),
                   Return(Var(B))>>,
                 <<Decl(<<A, B>>), ExprStmt(Var(A)), Decl(<<B, A>>), Return(Both(A, B))>>,
                 <<Decl(<<A>>), ExprStmt(Asg(A, Num(1))), Decl(<<B>>), ExprStmt(Asg(B, Var(A))),
                   Decl(<<A>>), Return(Both(A, B))>>,
                 <<Decl(<<A, B>>), ExprStmt(Asg(B, Num(2))), Return(Var(B))>>}}

\* Programs with a global declared before main whose name, or another
\* global's, is also declared as a local of main.
ShadowInputs ==
    {ProgramInput("shadow", <<Global(A), Func(Main, body)>>) :
       body \in {<<ExprStmt(Asg(A, Num(1))), Decl(<<A>>), ExprStmt(Asg(A, Num(2))),
                   Return(Var(A))>>,
                 <<Decl(<<A>>), ExprStmt(Asg(A, Plus1(A))), Return(Var(A))>>,
                 <<Decl(<<B>>), ExprStmt(Asg(B, Var(A))), ExprStmt(Asg(A, Var(B))),
                   Return(Both(A, B))>>,
                 <<Decl(<<B, A>>), ExprStmt(Asg(A, Num(3))), Return(Both(A, B))>>,
                 <<Return(Var(A)), Decl(<<A>>), Return(Var(A))>>}}
      \cup {ProgramInput("shadow", <<Global(A), Func(Main, body), Global(B)>>) :
              body \in {<<Decl(<<A>>), ExprStmt(Asg(A, Num(1))), Return(Var(A))>>}}

\* Programs that declare a local inside a block and use it, or declare
\* another local, after the block's closing brace.
BlockInputs ==
    {ProgramInput("blocks", MainOf(body)) :
       body \in {<<Block(<<Decl(<<A>>), ExprStmt(Asg(A, Num(1)))>>), Return(Var(A))>>,
                 <<Block(<<Decl(<<A>>)>>), ExprStmt(Asg(A, Num(2))), Return(Var(A))>>,
                 <<Decl(<<A>>), Block(<<Decl(<<B>>), ExprStmt(Asg(B, Num(3)))>>), Decl(<<I>>),
                   ExprStmt(Asg(I, Var(B))), Return(Both(B, I))>>,
                 <<Block(<<Block(<<Decl(<<A, B>>)>>), ExprStmt(Asg(B, Num(1)))>>),
                   Block(<<Decl(<<I>>)>>), ExprStmt(Asg(I, Num(2))), Return(Both(B, I))>>,
                 <<Block(<<>>), Decl(<<A>>), Block(<<ExprStmt(Asg(A, Num(1)))>>),
                   Return(Var(A))>>}}

\* Programs with two globals declared before main, stored to and loaded
\* beside a local of main.
GlobalBodies ==
    {<<ExprStmt(Asg(G, Num(3))), Return(Var(G))>>,
     <<ExprStmt(Asg(G, Num(3))), Return(Var(A))>>,
     <<ExprStmt(Asg(A, Num(2))), ExprStmt(Asg(G, Num(3))), Return(Var(A))>>,
     <<Decl(<<B>>), ExprStmt(Asg(G, Num(3))), Return(Var(B))>>,
     <<Decl(<<B>>), ExprStmt(Asg(B, Num(2))), ExprStmt(Asg(A, Num(1))), Return(Both(G, B))>>,
     <<Decl(<<B>>), ExprStmt(Asg(B, Num(2))), ExprStmt(Asg(A, Var(B))),
       ExprStmt(Asg(B, Num(1))), Return(Both(G, B))>>}
GlobalInputs ==
    {ProgramInput("globals", <<Global(G), Global(A), Func(Main, body)>>) : body \in GlobalBodies}

\* Programs whose main declares n locals v1 .. vn, eight to a declaration,
\* then stores to the last of them and returns it.
LocalName(i) == <<"v">> \o NumChars(i)
ManyLocals(n) ==
    [d \in 1..((n + 7) \div 8) |->
       Decl([j \in 1..(IF 8 * d <= n THEN 8 ELSE n - 8 * (d - 1)) |-> LocalName(8 * (d - 1) + j)])]
LocalCounts == {FrameSize - 1, FrameSize, FrameSize + 1}
FrameInputs ==
    {ProgramInput("frame", MainOf(ManyLocals(n)
                     \o <<ExprStmt(Asg(LocalName(n), Num(7))), Return(Var(LocalName(n)))>>)) :
       n \in LocalCounts}

\* Programs that use an assignment as a value: as the right-hand side of
\* another assignment and as the expression of a return.
AssignBodies ==
    {<<Decl(<<A, B>>), ExprStmt(Asg(A, Asg(B, Num(7)))), Return(Both(A, B))>>,
     <<Decl(<<A, B>>), ExprStmt(Asg(B, Num(2))), ExprStmt(Asg(A, Asg(B, Plus1(B)))),
       Return(Both(A, B))>>,
     <<Decl(<<A>>), Return(Asg(A, Num(5)))>>,
     <<Decl(<<A>>), ExprStmt(Asg(A, Num(4))), Return(Asg(A, Plus1(A)))>>,
     <<Decl(<<A, B>>), ExprStmt(Asg(A, Num(1))), ExprStmt(Asg(B, Num(2))), Return(Both(A, B))>>}
AssignInputs == {ProgramInput("assign", MainOf(body)) : body \in AssignBodies}

Inputs ==
    LiteralInputs \cup ExprInputs \cup StraightInputs \cup IfInputs \cup WhileInputs
      \cup ScopeInputs \cup TopLevelInputs \cup MutatedInputs \cup TestInputs
      \cup CharInputs \cup ParserTestInputs \cup StatementInputs \cup DigitRunInputs
      \cup SpellingInputs \cup DeclarationInputs \cup ShadowInputs
      \cup BlockInputs \cup GlobalInputs \cup FrameInputs \cup AssignInputs
Variants == {"base", "bonus"}

\* Hand-built opcode sequences, as the tests of the vm module build them.
\* The push of an integer is Imm in the base variant and IImm in the bonus
\* one; FImm exists in the bonus variant only.
PushInt(v, n) == Op(ImmOp(v), n)
Plain(o) == Op(o, 0)
\* [push 10, push 5, Sub, Ret] of test_int_arithmetic.
IntArithmetic(v) == <<PushInt(v, 10), PushInt(v, 5), Plain("Sub"), OpRet>>
\* [FImm(3.5), FImm(1.5), Add, Ret] of test_float_arithmetic.
FloatArithmetic == <<Op("FImm", 35), Op("FImm", 15), Plain("Add"), OpRet>>
\* [IImm(3), FImm(4.5), Add, Ret] of test_type_mismatch.
TypeMismatch == <<Op("IImm", 3), Op("FImm", 45), Plain("Add"), OpRet>>
ArithOps == {"Add", "Sub", "Mul", "Div"}
\* One binary instruction on two pushed values, a third value below them.
BinarySequences(v) ==
    {<<PushInt(v, 9), PushInt(v, a), PushInt(v, b), Plain(op), OpRet>> :
       a \in {-7, 0, 5}, b \in {-2, 0, 3}, op \in ArithOps}
\* The same with an operand of each tag.
MixedSequences ==
    {<<Op("IImm", 9), Op("IImm", 3), Op("FImm", f), Plain(op), OpRet>> :
       f \in {0, 45}, op \in ArithOps}
      \cup {<<Op("IImm", 9), Op("FImm", f), Op("IImm", 3), Plain(op), OpRet>> :
              f \in {0, 45}, op \in ArithOps}
      \cup {<<Op("FImm", 9), Op("FImm", 45), Op("FImm", f), Plain(op), OpRet>> :
              f \in {0, 15}, op \in ArithOps}
\* Sequences that jump, end without a Ret, return twice or find the stack
\* too low.
OtherSequences(v) ==
    {<<>>,
     <<Op("Jmp", 1), Op("Jmp", 0)>>,
     <<Op("Jmp", -1)>>,
     <<PushInt(v, 1), Op("Jmp", 5)>>,
     <<PushInt(v, 1)>>,
     <<OpRet>>,
     <<Plain("Add"), OpRet>>,
     <<PushInt(v, 1), Plain("Div"), OpRet>>,
     <<PushInt(v, 1), OpRet, PushInt(v, 2), OpRet>>,
     <<PushInt(v, 0), Op("Jz", 3), OpRet, PushInt(v, 5), OpRet>>,
     <<PushInt(v, 4), Op("Jz", 3), OpRet, PushInt(v, 5), OpRet>>,
     <<Op("Jz", 0)>>,
     <<PushInt(v, 1), Op("Jz", 0)>>,
     <<PushInt(v, 0), Op("Jz", 7)>>,
     <<PushInt(v, 7), Op("St", 0), Op("Ld", 0), OpRet>>,
     <<PushInt(v, 7), PushInt(v, 8), Op("St", 0), OpRet>>,
     <<PushInt(v, 7), Op("St", FrameSize), OpRet>>,
     <<PushInt(v, 7), Op("St", -1), OpRet>>,
     <<Op("Ld", FrameSize), OpRet>>,
     <<Op("Ld", -1), OpRet>>,
     <<Op("St", 0), Op("Jmp", 0)>>,
     <<Plain("Add"), Op("Jmp", 0)>>}
\* One binary instruction on two integers at the ends of the range.
OverflowSequences(v) ==
    {<<PushInt(v, IntMax), PushInt(v, 1), Plain("Add"), OpRet>>,
     <<PushInt(v, IntMax), PushInt(v, IntMax), Plain("Add"), OpRet>>,
     <<PushInt(v, IntMin), PushInt(v, 1), Plain("Sub"), OpRet>>,
     <<PushInt(v, IntMax), PushInt(v, 2), Plain("Mul"), OpRet>>,
     <<PushInt(v, IntMin), PushInt(v, -1), Plain("Mul"), OpRet>>,
     <<PushInt(v, IntMin), PushInt(v, -1), Plain("Div"), OpRet>>,
     <<PushInt(v, IntMin), PushInt(v, 1), Plain("Div"), OpRet>>,
     <<PushInt(v, IntMax), PushInt(v, -1), Plain("Div"), OpRet>>}
HandBuilt(v) ==
    {OpcodeInput("handbuilt", ops) :
       ops \in {IntArithmetic(v)} \cup BinarySequences(v) \cup OtherSequences(v)
                 \cup OverflowSequences(v)
                 \cup (IF v = "bonus" THEN {FloatArithmetic, TypeMismatch} \cup MixedSequences
                       ELSE {})}

\* The variables, together.
vars ==
    <<variant, family, ast, source, tokens, opcodes, phase, stack, pc, result, error,
      parser, run, first>>

\* The families whose inputs are put through the pipeline a second time.
Repeated == {"if", "while", "scope", "toplevel", "mutated", "char", "nested", "bare"}
\* What a run of the pipeline produces.
Produced == [tokens |-> tokens, opcodes |-> opcodes, phase |-> phase,
             result |-> result, error |-> error]

Init ==
    \E v \in Variants : \E in \in Inputs \cup HandBuilt(v) :
        /\ variant = v
        /\ family = in.family
        /\ ast = in.ast
        /\ source = in.text
        /\ tokens = in.toks
        /\ phase = in.given
        /\ opcodes = in.ops
        /\ stack = <<>>
        /\ pc = 0
        /\ result = IntVal(0)
        /\ error = ""
        /\ parser = [v |-> v, tokens |-> <<>>, pos |-> 0, opcodes |-> <<>>,
                     globals |-> NoSymbols, locals |-> NoSymbols,
                     local_offset |-> 0, err |-> ""]
        /\ run = 1
        /\ first = [tokens |-> <<>>, opcodes |-> <<>>, phase |-> "",
                    result |-> IntVal(0), error |-> ""]

\* main: let tokens = match lexer::tokenize(&source)
Tokenize ==
    /\ phase = "source"
    /\ LET r == tokenize(variant, source)
       IN /\ phase' = IF r.ok THEN "tokens" ELSE "lexerror"
          /\ tokens' = r.tokens
          /\ error' = IF r.ok THEN "" ELSE "Lexing error"
    /\ UNCHANGED <<variant, family, ast, source, parser, run, first, opcodes, stack, pc, result>>

\* main: let opcodes = match parser::parse(tokens)
Parse ==
    /\ phase = "tokens"
    /\ LET r == parse(variant, tokens)
       IN /\ phase' = IF r.ok THEN "opcodes" ELSE "parseerror"
          /\ opcodes' = r.opcodes
          /\ error' = r.parser.err
          /\ parser' = r.parser
    /\ UNCHANGED <<variant, family, ast, source, run, first, tokens, stack, pc, result>>

\* vm::execute, up to the dispatch loop.
Start ==
    /\ phase = "opcodes"
    /\ phase' = "running"
    /\ stack' = Frame(variant)
    /\ pc' = 0
    /\ UNCHANGED <<variant, family, ast, source, parser, run, first, tokens, opcodes, result, error>>

\* while (pc as usize) < opcodes.len(): a negative pc casts to a huge usize.
Fetching == phase = "running" /\ 0 <= pc /\ pc < Len(opcodes)
Fetched == opcodes[pc + 1]
Pop(stk) == SubSeq(stk, 1, Len(stk) - 1)
Top(stk) == stk[Len(stk)]

Continue(stk, next) ==
    /\ stack' = stk
    /\ pc' = next
    /\ UNCHANGED <<variant, family, ast, source, parser, run, first, tokens, opcodes, phase, result, error>>
\* return Err(msg.into())
RuntimeError(stk, msg) ==
    /\ phase' = "runtimeerror"
    /\ error' = msg
    /\ stack' = stk
    /\ UNCHANGED <<variant, family, ast, source, parser, run, first, tokens, opcodes, pc, result>>
\* The thread panics.
Panic(stk, msg) ==
    /\ phase' = "panic"
    /\ error' = msg
    /\ stack' = stk
    /\ UNCHANGED <<variant, family, ast, source, parser, run, first, tokens, opcodes, pc, result>>

\* Opcode::Imm(n) (base), Opcode::IImm(n) (bonus)
ExecImm ==
    /\ Fetching /\ Fetched.op \in {"Imm", "IImm"}
    /\ Len(stack) < StackCap(variant)
    /\ Continue(Append(stack, IntVal(Fetched.arg)), pc + 1)

\* Opcode::FImm(f)
ExecFImm ==
    /\ Fetching /\ Fetched.op = "FImm"
    /\ Len(stack) < StackCap(variant)
    /\ Continue(Append(stack, FloatVal(Fetched.arg)), pc + 1)

\* Opcode::Ld(offset)
ExecLd ==
    /\ Fetching /\ Fetched.op = "Ld"
    /\ Len(stack) < StackCap(variant)
    /\ IF ValidOffset(Fetched.arg, Len(stack))
       THEN Continue(Append(stack, stack[Fetched.arg + 1]), pc + 1)
       ELSE RuntimeError(stack, "Invalid local offset in Ld")

\* A fault for ExecSt: the stored value stays on the stack.
ExecStPeeking ==
    /\ Fetching /\ Fetched.op = "St"
    /\ IF stack # <<>>
       THEN IF ValidOffset(Fetched.arg, Len(stack) - 1)
            THEN Continue([stack EXCEPT ![Fetched.arg + 1] = Top(stack)], pc + 1)
            ELSE RuntimeError(Pop(stack), "Invalid local offset in St")
       ELSE RuntimeError(stack, "Stack underflow in St")

\* Opcode::St(offset)
ExecSt ==
    /\ Fetching /\ Fetched.op = "St"
    /\ IF stack # <<>>
       THEN IF ValidOffset(Fetched.arg, Len(stack) - 1)
            THEN Continue([Pop(stack) EXCEPT ![Fetched.arg + 1] = Top(stack)], pc + 1)
            ELSE RuntimeError(Pop(stack), "Invalid local offset in St")
       ELSE RuntimeError(stack, "Stack underflow in St")

\* Opcode::Add, Opcode::Sub, Opcode::Mul: pop b, pop a, push a op b.
Binary(op) ==
    /\ Fetching /\ Fetched.op = op
    /\ IF Len(stack) < 2
       THEN RuntimeError(stack, "Stack underflow in " \o op)
       ELSE LET b == Top(stack)
                a == Top(Pop(stack))
                rest == Pop(Pop(stack))
            IN \E o \in Outcomes(op, a, b) :
                 CASE o.kind = "push" -> Continue(Append(rest, o.val), pc + 1)
                   [] o.kind = "err" -> RuntimeError(rest, o.msg)
                   [] o.kind = "panic" -> Panic(rest, o.msg)
ExecAdd == Binary("Add")
ExecSub == Binary("Sub")
ExecMul == Binary("Mul")

\* Opcode::Div: pop b, return Err when b is zero, pop a, push a / b.
ExecDiv ==
    /\ Fetching /\ Fetched.op = "Div"
    /\ IF Len(stack) < 2
       THEN RuntimeError(stack, "Stack underflow in Div")
       ELSE LET b == Top(stack)
                a == Top(Pop(stack))
                rest == Pop(Pop(stack))
            IN IF IsZero(b)
               THEN RuntimeError(Pop(stack), "Division by zero")
               ELSE \E o \in Outcomes("Div", a, b) :
                      CASE o.kind = "push" -> Continue(Append(rest, o.val), pc + 1)
                        [] o.kind = "err" -> RuntimeError(rest, o.msg)
                        [] o.kind = "panic" -> Panic(rest, o.msg)

\* Opcode::Jmp(addr)
ExecJmp ==
    /\ Fetching /\ Fetched.op = "Jmp"
    /\ Continue(stack, Fetched.arg)

\* A fault for ExecJz: the inspected value is popped.
ExecJzPopping ==
    /\ Fetching /\ Fetched.op = "Jz"
    /\ IF stack # <<>>
       THEN Continue(Pop(stack), IF IsZero(Top(stack)) THEN Fetched.arg ELSE pc + 1)
       ELSE RuntimeError(stack, "Stack underflow in Jz")

\* Opcode::Jz(addr): the top of the stack is inspected, not popped.
ExecJz ==
    /\ Fetching /\ Fetched.op = "Jz"
    /\ IF stack # <<>>
       THEN Continue(stack, IF IsZero(Top(stack)) THEN Fetched.arg ELSE pc + 1)
       ELSE RuntimeError(stack, "Stack underflow in Jz")

\* A fault for ExecRet: the value is popped and the run goes on.
ExecRetGoingOn ==
    /\ Fetching /\ Fetched.op = "Ret"
    /\ IF stack # <<>>
       THEN IF pc + 1 < Len(opcodes)
            THEN Continue(Pop(stack), pc + 1)
            ELSE /\ phase' = "ok"
                 /\ result' = Top(stack)
                 /\ stack' = Pop(stack)
                 /\ UNCHANGED <<variant, family, ast, source, parser, run, first, tokens,
                                opcodes, pc, error>>
       ELSE RuntimeError(stack, "Stack underflow in Ret")

\* A fault for ExecRet: the result is the bottom of the stack.
ExecRetBottom ==
    /\ Fetching /\ Fetched.op = "Ret"
    /\ IF stack # <<>>
       THEN /\ phase' = "ok"
            /\ result' = stack[1]
            /\ stack' = Pop(stack)
            /\ UNCHANGED <<variant, family, ast, source, parser, run, first, tokens, opcodes, pc, error>>
       ELSE RuntimeError(stack, "Stack underflow in Ret")

\* Opcode::Ret
ExecRet ==
    /\ Fetching /\ Fetched.op = "Ret"
    /\ IF stack # <<>>
       THEN /\ phase' = "ok"
            /\ result' = Top(stack)
            /\ stack' = Pop(stack)
            /\ UNCHANGED <<variant, family, ast, source, parser, run, first, tokens, opcodes, pc, error>>
       ELSE RuntimeError(stack, "Stack underflow in Ret")

\* A fault for ExecNoRet: a run that leaves the sequence ends as if by a
\* Ret, with the value 0.
ExecNoRetReturning ==
    /\ phase = "running" /\ ~Fetching
    /\ phase' = "ok"
    /\ result' = IntVal(0)
    /\ UNCHANGED <<variant, family, ast, source, parser, run, first, tokens, opcodes, stack,
                   pc, error>>

\* The loop ends without a Ret: Err("No Ret opcode encountered").
ExecNoRet ==
    /\ phase = "running" /\ ~Fetching
    /\ RuntimeError(stack, "No Ret opcode encountered")

\* The pipeline is run again on the same input in the same process, as the
\* tests of one test binary follow each other: the first run is over, and
\* the second starts from the source text (from the tokens, for an input
\* that was given as tokens).
Ended == phase \in {"ok", "lexerror", "parseerror", "runtimeerror", "panic"}
Again ==
    /\ Ended /\ run = 1 /\ family \in Repeated
    /\ run' = 2
    /\ first' = Produced
    /\ phase' = IF family = "mutated" /\ source = <<>> THEN "tokens" ELSE "source"
    /\ tokens' = IF family = "mutated" /\ source = <<>> THEN tokens ELSE <<>>
    /\ opcodes' = <<>>
    /\ stack' = <<>>
    /\ pc' = 0
    /\ result' = IntVal(0)
    /\ error' = ""
    /\ UNCHANGED <<variant, family, ast, source, parser>>

Next ==
    \/ Tokenize
    \/ Parse
    \/ Start
    \/ ExecImm
    \/ ExecFImm
    \/ ExecLd
    \/ ExecSt
    \/ ExecAdd
    \/ ExecSub
    \/ ExecMul
    \/ ExecDiv
    \/ ExecJmp
    \/ ExecJz
    \/ ExecRet
    \/ ExecNoRet
    \/ Again

Spec == Init /\ [][Next]_vars
\* One iteration of the dispatch loop of vm::execute.
Execute ==
    \/ ExecImm \/ ExecFImm \/ ExecLd \/ ExecSt
    \/ ExecAdd \/ ExecSub \/ ExecMul \/ ExecDiv
    \/ ExecJmp \/ ExecJz \/ ExecRet \/ ExecNoRet
\* vm::execute runs on a thread that is never suspended for good: as long
\* as an iteration changes the state, an iteration is taken.
FairSpec == Spec /\ WF_vars(Execute)

\* ------------------------------------------------- the language's meaning
\* What a program of the C subset computes, on the program itself: the
\* values of the variables (0 until assigned), evaluation left to right,
\* * and / before + and - as the tree has them, / truncating toward zero,
\* an assignment having the assigned value.  ok is FALSE where the claims
\* say nothing: a zero divisor, a result outside the integer range, a
\* floating-point literal, a loop still running after Fuel iterations.
VarNames == {A, B, I, N, G, U, Main}
Fuel == MaxGrowth + 1
MeaningOp(op, x, y) ==
    CASE op = "Plus" -> x + y
      [] op = "Minus" -> x - y
      [] op = "Mul" -> x * y
      [] op = "Div" -> IF y = 0 THEN 0
                       ELSE IF (x < 0) # (y < 0) THEN -((IF x < 0 THEN -x ELSE x) \div (IF y < 0 THEN -y ELSE y))
                       ELSE (IF x < 0 THEN -x ELSE x) \div (IF y < 0 THEN -y ELSE y)
RECURSIVE MeaningExpr(_, _), MeaningStmt(_, _, _), MeaningStmts(_, _, _), MeaningWhile(_, _, _)
MeaningExpr(e, env) ==
    CASE e.k = "num" -> [ok |-> TRUE, v |-> e.n, env |-> env]
      [] e.k = "flt" -> [ok |-> FALSE, v |-> 0, env |-> env]
      [] e.k = "var" -> [ok |-> TRUE, v |-> env[e.s], env |-> env]
      [] e.k = "par" -> MeaningExpr(e.e, env)
      [] e.k = "asg" ->
           LET r == MeaningExpr(e.e, env)
           IN [ok |-> r.ok, v |-> r.v, env |-> [r.env EXCEPT ![e.s] = r.v]]
      [] e.k = "bin" ->
           LET l == MeaningExpr(e.l, env)
               r == MeaningExpr(e.r, l.env)
               v == MeaningOp(e.op, l.v, r.v)
           IN IF ~l.ok \/ ~r.ok \/ (e.op = "Div" /\ r.v = 0) \/ ~InRange(v)
              THEN [ok |-> FALSE, v |-> 0, env |-> env]
              ELSE [ok |-> TRUE, v |-> v, env |-> r.env]
\* st: the variables, ok, and ret with the value v once a return has run.
MeaningStmt(s, st, fuel) ==
    IF st.ret \/ ~st.ok THEN st
    ELSE CASE s.k = "return" ->
                LET r == MeaningExpr(s.e, st.env)
                IN [env |-> r.env, ok |-> r.ok, ret |-> r.ok, v |-> r.v]
           [] s.k = "expr" ->
                LET r == MeaningExpr(s.e, st.env)
                IN [st EXCEPT !.env = r.env, !.ok = r.ok]
           [] s.k = "decl" -> st
           [] s.k = "block" -> MeaningStmts(s.ss, st, fuel)
           [] s.k = "if" ->
                LET r == MeaningExpr(s.c, st.env)
                    st1 == [st EXCEPT !.env = r.env, !.ok = r.ok]
                IN IF r.ok /\ r.v # 0 THEN MeaningStmt(s.t, st1, fuel) ELSE st1
           [] s.k = "ifelse" ->
                LET r == MeaningExpr(s.c, st.env)
                    st1 == [st EXCEPT !.env = r.env, !.ok = r.ok]
                IN IF ~r.ok THEN st1
                   ELSE IF r.v # 0 THEN MeaningStmt(s.t, st1, fuel)
                   ELSE MeaningStmt(s.f, st1, fuel)
           [] s.k = "while" -> MeaningWhile(s, st, fuel)
MeaningWhile(s, st, fuel) ==
    IF st.ret \/ ~st.ok THEN st
    ELSE IF fuel = 0 THEN [st EXCEPT !.ok = FALSE]
    ELSE LET r == MeaningExpr(s.c, st.env)
             st1 == [st EXCEPT !.env = r.env, !.ok = r.ok]
         IN IF ~r.ok \/ r.v = 0 THEN st1
            ELSE MeaningWhile(s, MeaningStmt(s.b, st1, fuel), fuel - 1)
MeaningStmts(ss, st, fuel) ==
    IF ss = <<>> THEN st ELSE MeaningStmts(Tail(ss), MeaningStmt(Head(ss), st, fuel), fuel)
\* The meaning of `int main() { body }`.
Meaning(body) ==
    MeaningStmts(body, [env |-> [x \in VarNames |-> 0], ok |-> TRUE, ret |-> FALSE, v |-> 0], Fuel)
\* The body of main in a program that is one definition of main.
MainBody == ast[1].body
\* The pipeline ended in an error of some stage.
Failed == phase \in {"lexerror", "parseerror", "runtimeerror", "panic"}
\* The run has not ended and the model follows it no further: the next
\* opcode pushes and the stack has reached the bound StackCap.  Every other
\* state that has not ended has a step.
Stuck ==
    /\ Fetching /\ Fetched.op \in {"Imm", "IImm", "FImm", "Ld"}
    /\ Len(stack) >= StackCap(variant)

\* ------------------------------------------------------------------ claims
\* C1: for a source that is whitespace and // comments around a single
\* `int main(){ return <literal>; }`, the literal a non-negative integer
\* that fits, tokenize, parse and execute all succeed (no stage fails, none
\* is left unfinished) and the result is the literal's value, in both
\* variants.
LiteralIsReturned ==
    family = "literal" =>
        /\ ~Failed
        /\ ~Stuck
        /\ phase = "ok" => result = IntVal(MainBody[1].e.n)
\* C1 witness: the literal 42 has been returned from a source that starts
\* with a comment.
LiteralIsReturnedWitness ==
    /\ family = "literal" /\ phase = "ok" /\ result = IntVal(42)
    /\ source[1] = "/"

\* C2: for an expression of integer literals, + - * / and parentheses, with
\* no zero divisor and no overflow, compiling and executing `return <expr>;`
\* succeeds and yields the value the expression has with * and / binding
\* tighter than + and -, each level left-associative, and / truncating
\* toward zero.
ExpressionValue ==
    (family = "expr" /\ Meaning(MainBody).ok) =>
        /\ ~Failed
        /\ ~Stuck
        /\ phase = "ok" => result = IntVal(Meaning(MainBody).v)
\* C2 witness: (1 - 8) / 2 has been evaluated to -3 (a floor would give -4).
ExpressionValueWitness ==
    /\ family = "expr" /\ phase = "ok" /\ result = IntVal(-3)
    /\ MainBody[1].e = Bin("Div", Par(Bin("Minus", Num(1), Num(8))), Num(2))

\* C3, as the code has it: compiling and executing
\* `int main(){ return 2 + 3 * 4 - 6 / 2; }` succeeds and yields 11, which
\* is 2 + 12 - 3.
ComplexExpressionIsEleven ==
    (family = "expr" /\ MainBody[1].e = ComplexExpression) =>
        /\ ~Failed
        /\ ~Stuck
        /\ phase = "ok" => result = IntVal(11)
\* C3 witness: the run of that program has returned 11.
ComplexExpressionIsElevenWitness ==
    /\ family = "expr" /\ MainBody[1].e = ComplexExpression
    /\ phase = "ok" /\ result = IntVal(11)
\* C3 as stated: the program yields 5.  The run that returns 11 refutes it.
ComplexExpressionIsFive ==
    (family = "expr" /\ MainBody[1].e = ComplexExpression /\ phase = "ok") =>
        result = IntVal(5)

\* C4 as stated: in the base variant a load of a local yields the value
\* last assigned to it by a statement `x = e;`, the value e had, and the
\* other local is untouched, so a straight-line program of assignments to
\* a and b returns what its return expression is worth in the language
\* (15 for `a = 5; b = 10; return a + b;`).  The code does not do this when
\* e is itself an assignment: `a = b = 7;` stores 7 to b, and St having
\* popped the 7, the store to a pops a slot of the frame and a is 0.
StoredValueIsLoaded ==
    (family = "straight" /\ variant = "base" /\ Meaning(MainBody).ok /\ phase = "ok") =>
        result = IntVal(Meaning(MainBody).v)
\* C4: the run of `int a, b; a = b = 7; return a;` that ends with 0.
ChainedStoreLosesValue ==
    /\ family = "straight" /\ variant = "base" /\ phase = "ok"
    /\ MainBody = <<Decl(<<A, B>>), ExprStmt(Asg(A, Asg(B, Num(7)))), Return(Var(A))>>
    /\ result = IntVal(0)
    /\ Len(stack) < FrameSize

\* C5 as stated: `if (c) S1 else S2` runs S1 and none of S2 when c is not
\* zero, S2 and none of S1 when c is zero, at every nesting depth, so a
\* program of one if-else statement ends as the selected branch makes it
\* end (2 for the nested example).  The code does not do this when c is an
\* assignment: Jz inspects a slot of the frame, not the assigned value.
OneBranchRuns ==
    (family = "if" /\ MainBody[2].k = "ifelse" /\ Meaning(MainBody).ok /\ phase = "ok") =>
        result = IntVal(Meaning(MainBody).v)
\* C5: the run of `int a, b; if (a = 1) return 1; else return 2;
\* return 10 * a + b;` that ends with 2.
AssignedConditionTakesElse ==
    /\ family = "if" /\ variant = "base" /\ phase = "ok"
    /\ MainBody[2] = IfElse(Asg(A, Num(1)), Return(Num(1)), Return(Num(2)))
    /\ result = IntVal(2)

\* C6 as stated: in the base variant `while (c) S` evaluates c before each
\* iteration, runs S once per evaluation that is not zero and goes on after
\* the loop at the first zero, nested loops included, so a program with a
\* loop that ends within the bounds ends, and with the result the language
\* gives it (0 for the nested example).  The code does not do this when c
\* is an assignment, for the reason of C5.
LoopRunsWhileNonZero ==
    (family = "while" /\ variant = "base" /\ Meaning(MainBody).ok) =>
        /\ ~Failed
        /\ phase = "ok" => result = IntVal(Meaning(MainBody).v)
\* C6: the run of `int i; int n; i = 2; while (i = i - 1) n = n + 1;
\* return 10 * n + i;` that ends with 1, the body never run.
AssignedConditionSkipsLoop ==
    /\ family = "while" /\ variant = "base" /\ phase = "ok"
    /\ MainBody[3] = ExprStmt(Asg(I, Num(2)))
    /\ MainBody[4] = While(Asg(I, Minus1(I)), ExprStmt(Asg(N, Plus1(N))))
    /\ result = IntVal(1)

\* C7: whenever Div executes with at least two values on the stack and the
\* top one, the right operand, is the integer 0 or the float 0.0, the step
\* ends the run with the RuntimeError "Division by zero" and sets no result,
\* whatever the left operand is.
DivisionByZeroIsAnError ==
    [][(/\ Fetching /\ Fetched.op = "Div"
        /\ Len(stack) >= 2
        /\ Top(stack) \in {IntVal(0), FloatVal(0)})
          => (/\ phase' = "runtimeerror"
              /\ error' = "Division by zero"
              /\ result' = result)]_vars
\* C7 witness: 1.5 / 0.0 has ended in the error, the left operand 1.5 the
\* only value left on the stack of the bonus variant.
DivisionByZeroIsAnErrorWitness ==
    /\ phase = "runtimeerror" /\ error = "Division by zero"
    /\ variant = "bonus" /\ family = "expr"
    /\ MainBody[1].e = Bin("Div", Flt(15), Flt(0))
    /\ opcodes[pc + 1].op = "Div"
    /\ stack = <<FloatVal(15)>>

\* Whether the tokens use, in a function body, an identifier that at that
\* point is neither a local of the function nor a global declared before.
\* mode is "top" between the top-level items, "skip" in the rest of a global
\* declaration, "body" in a function body (depth braces deep) and "decl" in
\* a local declaration.
RECURSIVE UndeclaredScan(_, _, _, _, _, _, _)
UndeclaredScan(v, toks, i, mode, depth, globals, locals) ==
    IF i > Len(toks) \/ toks[i] = TEOF THEN FALSE
    ELSE CASE mode = "top" ->
                IF /\ i + 2 <= Len(toks)
                   /\ toks[i].t \in TypeTokens(v)
                   /\ toks[i + 1].t = "Ident"
                THEN IF toks[i + 2] = Tok("LParen")
                     THEN /\ i + 4 <= Len(toks)
                          /\ toks[i + 3] = Tok("RParen")
                          /\ toks[i + 4] = Tok("LBrace")
                          /\ UndeclaredScan(v, toks, i + 5, "body", 1, globals, {})
                     ELSE UndeclaredScan(v, toks, i + 2, "skip", 0,
                                         globals \cup {toks[i + 1].s}, locals)
                ELSE FALSE
           [] mode = "skip" ->
                UndeclaredScan(v, toks, i + 1,
                               IF toks[i] = Tok("Semicolon") THEN "top" ELSE "skip",
                               0, globals, locals)
           [] mode = "decl" ->
                IF toks[i].t = "Ident"
                THEN UndeclaredScan(v, toks, i + 1, "decl", depth, globals,
                                    locals \cup {toks[i].s})
                ELSE UndeclaredScan(v, toks, i + 1,
                                    IF toks[i] = Tok("Comma") THEN "decl" ELSE "body",
                                    depth, globals, locals)
           [] mode = "body" ->
                CASE toks[i].t = "Ident" ->
                       \/ toks[i].s \notin globals \cup locals
                       \/ UndeclaredScan(v, toks, i + 1, "body", depth, globals, locals)
                  [] toks[i].t \in TypeTokens(v) ->
                       UndeclaredScan(v, toks, i + 1, "decl", depth, globals, locals)
                  [] toks[i] = Tok("LBrace") ->
                       UndeclaredScan(v, toks, i + 1, "body", depth + 1, globals, locals)
                  [] toks[i] = Tok("RBrace") ->
                       UndeclaredScan(v, toks, i + 1, IF depth = 1 THEN "top" ELSE "body",
                                      depth - 1, globals, locals)
                  [] OTHER ->
                       UndeclaredScan(v, toks, i + 1, "body", depth, globals, locals)
UndeclaredUse(v, toks) == UndeclaredScan(v, toks, 1, "top", 0, {}, {})
\* parse has returned.
Parsed == family # "handbuilt" /\ phase \notin {"source", "tokens", "lexerror"}
\* parse returned a ParseError: there is no instruction sequence and execute
\* was never entered.
ParseErrorOnly ==
    /\ phase = "parseerror"
    /\ opcodes = <<>>
    /\ stack = <<>> /\ pc = 0

\* C8: if a function body reads or assigns an identifier that is in neither
\* the local nor the global scope at that point of the token stream, parse
\* returns a ParseError (also when the use is where no run would get), no
\* instruction sequence is returned and the executor is not invoked.
UndeclaredIsParseError ==
    (Parsed /\ UndeclaredUse(variant, tokens)) => ParseErrorOnly
\* C8 witness: `if (0) u = 1; return 0;` has been refused for its u.
UndeclaredIsParseErrorWitness ==
    /\ family = "scope" /\ ParseErrorOnly /\ error = "Undefined variable"
    /\ MainBody = <<If(Num(0), ExprStmt(Asg(U, Num(1)))), Return(Num(0))>>

\* Whether every ( ) { } of the tokens has its partner.  The tokens are
\* read one by one: open is the sequence of the brackets opened and not yet
\* closed, ok whether every closing bracket so far found its partner.
MatchStep(toks, st) ==
    IF ~st.ok \/ st.i > Len(toks) THEN st
    ELSE CASE toks[st.i].t \in {"LParen", "LBrace"} ->
                [st EXCEPT !.i = @ + 1, !.open = Append(@, toks[st.i].t)]
           [] toks[st.i].t = "RParen" ->
                IF st.open # <<>> /\ st.open[Len(st.open)] = "LParen"
                THEN [st EXCEPT !.i = @ + 1, !.open = SubSeq(@, 1, Len(@) - 1)]
                ELSE [st EXCEPT !.ok = FALSE]
           [] toks[st.i].t = "RBrace" ->
                IF st.open # <<>> /\ st.open[Len(st.open)] = "LBrace"
                THEN [st EXCEPT !.i = @ + 1, !.open = SubSeq(@, 1, Len(@) - 1)]
                ELSE [st EXCEPT !.ok = FALSE]
           [] OTHER -> [st EXCEPT !.i = @ + 1]
\* n steps, by halves.
RECURSIVE MatchRun(_, _, _)
MatchRun(toks, st, n) ==
    IF n = 0 THEN st
    ELSE IF n = 1 THEN MatchStep(toks, st)
    ELSE LET half == MatchRun(toks, st, n \div 2)
         IN IF ~half.ok THEN half ELSE MatchRun(toks, half, n - (n \div 2))
Matched(toks) ==
    LET st == MatchRun(toks, [i |-> 1, open |-> <<>>, ok |-> TRUE], Len(toks))
    IN st.ok /\ st.open = <<>>
Unmatched(toks) == ~Matched(toks)
\* Whether the tokens have a function definition with another name than
\* main: a type, an identifier that is not main, and a (.
NonMainFunction(toks) ==
    \E i \in 1..(Len(toks) - 2) :
        /\ toks[i].t \in {"Int", "Char"}
        /\ toks[i + 1].t = "Ident" /\ toks[i + 1].s # Main
        /\ toks[i + 2] = Tok("LParen")
\* The tokens without those a global declaration skips: outside every
\* brace, after a type and an identifier that no ( follows, the tokens up
\* to the next ; are left out.
\* The tokens are read one by one: depth is the number of braces open,
\* skipping whether a global declaration is being skipped, out the tokens
\* kept so far.
SkipStep(toks, st) ==
    LET i == st.i
    IN IF i > Len(toks) THEN st
       ELSE IF st.skipping
            THEN IF toks[i] = Tok("Semicolon") \/ toks[i] = TEOF
                 THEN [st EXCEPT !.i = i + 1, !.skipping = FALSE, !.out = Append(@, toks[i])]
                 ELSE [st EXCEPT !.i = i + 1]
            ELSE IF /\ st.depth = 0 /\ i + 2 <= Len(toks)
                    /\ toks[i].t \in {"Int", "Char"}
                    /\ toks[i + 1].t = "Ident"
                    /\ toks[i + 2] # Tok("LParen")
                 THEN [st EXCEPT !.i = i + 2, !.skipping = TRUE,
                                 !.out = @ \o <<toks[i], toks[i + 1]>>]
                 ELSE [st EXCEPT !.i = i + 1,
                                 !.depth = CASE toks[i] = Tok("LBrace") -> @ + 1
                                             [] toks[i] = Tok("RBrace") /\ @ > 0 -> @ - 1
                                             [] OTHER -> @,
                                 !.out = Append(@, toks[i])]
\* n steps, by halves.
RECURSIVE SkipRun(_, _, _)
SkipRun(toks, st, n) ==
    IF n = 0 THEN st
    ELSE IF n = 1 THEN SkipStep(toks, st)
    ELSE LET half == SkipRun(toks, st, n \div 2)
         IN IF half.i > Len(toks) THEN half ELSE SkipRun(toks, half, n - (n \div 2))
WithoutSkipped(toks) ==
    SkipRun(toks, [i |-> 1, depth |-> 0, skipping |-> FALSE, out |-> <<>>], Len(toks)).out

\* C9, as the code has it: every token sequence that, the tokens skipped by
\* a global declaration (those between its identifier and the next ;) left
\* out, has an unmatched ( ) { or }, or a function definition whose name is
\* not main, makes parse return a ParseError, and on that error no
\* instruction sequence is returned or executed.
UnmatchedIsParseError ==
    (/\ Parsed
     /\ \/ Unmatched(WithoutSkipped(tokens))
        \/ NonMainFunction(WithoutSkipped(tokens)))
        => ParseErrorOnly
\* C9 witness: `int main() { return (5 + 2; }` has been refused.
UnmatchedIsParseErrorWitness ==
    /\ ParseErrorOnly
    /\ tokens = Append(UnmatchedParentheses, TEOF)
\* C9 as stated: every token sequence with an unmatched ( ) { or }, or with
\* a function definition whose name is not main, makes parse return a
\* ParseError.  `int g ) ; int main() { ... }` refutes it: the ) is among
\* the tokens the global declaration skips.
AnyUnmatchedIsParseError ==
    (Parsed /\ (Unmatched(tokens) \/ NonMainFunction(tokens))) => ParseErrorOnly

\* The instructions of a sequence that jump.
Jumps(ops) == {i \in 1..Len(ops) : ops[i].op \in {"Jmp", "Jz"}}
\* C10: in every instruction sequence a successful parse returns, every Jmp
\* and Jz target t satisfies 0 <= t < the length of the sequence, so that
\* whenever a run of it takes a jump the program counter lands on an
\* instruction of the sequence.
JumpTargetsExist ==
    /\ [](Parsed /\ phase # "parseerror" =>
            \A i \in Jumps(opcodes) : 0 <= opcodes[i].arg /\ opcodes[i].arg < Len(opcodes))
    /\ [][(Parsed /\ Fetching /\ Fetched.op \in {"Jmp", "Jz"} /\ pc' # pc + 1)
            => (0 <= pc' /\ pc' < Len(opcodes))]_vars
\* C10 witness: a while loop has jumped back to its start (the condition of
\* the iteration before is still on the stack).
JumpTargetsExistWitness ==
    /\ family = "while" /\ phase = "running"
    /\ Len(stack) > Len(Frame(variant))
    /\ \E i \in Jumps(opcodes) :
         opcodes[i].op = "Jmp" /\ opcodes[i].arg = pc /\ pc < i - 1

\* The run of vm::execute has ended as its signature allows: Ok or Err.
Returned == phase \in {"ok", "runtimeerror"}
\* The two popped operands are integers whose result leaves the range.
Overflows ==
    /\ Fetching /\ Fetched.op \in ArithOps /\ Len(stack) >= 2
    /\ Top(stack).tag = "Int" /\ Top(Pop(stack)).tag = "Int"
    /\ (Fetched.op = "Div" => Top(stack).v # 0)
    /\ ~InRange(IntRaw(Fetched.op, Top(Pop(stack)).v, Top(stack).v))

\* C11, as the code has it: execution of an instruction sequence need not
\* halt (the sequence [Jmp 1, Jmp 0] runs forever); when it halts, it is with the
\* value popped by the first Ret it executes, with a RuntimeError, or with
\* the panic of an integer operation whose result overflows.
HaltsWithFirstRet ==
    [][/\ phase = "running" =>
            \/ phase' = "running"
            \/ /\ phase' = "ok"
               /\ Fetched.op = "Ret" /\ stack # <<>>
               /\ result' = Top(stack)
            \/ phase' = "runtimeerror"
            \/ phase' = "panic" /\ Overflows
       /\ (Fetching /\ Fetched.op = "Ret") => Returned'
       /\ Returned => run' = run + 1 /\ first' = Produced /\ phase' \in {"source", "tokens"}]_vars
\* C11 witness: [push 1, Ret, push 2, Ret] has ended at its first Ret with
\* the result 1.
HaltsWithFirstRetWitness ==
    /\ family = "handbuilt" /\ phase = "ok"
    /\ opcodes = <<PushInt(variant, 1), OpRet, PushInt(variant, 2), OpRet>>
    /\ pc = 1 /\ result = IntVal(1)
\* C11 as stated: every execution eventually halts.  Neither the panic of
\* an overflow nor a run the model follows no further, its stack at the
\* bound, is held against the statement here; [Jmp 1, Jmp 0] refutes it.
EveryRunHalts == (phase = "running") ~> (Returned \/ phase = "panic" \/ Stuck)

\* C12 as stated: the run of a sequence that a successful parse returned
\* never ends with "No Ret opcode encountered".  The code does not keep
\* this: parse succeeds on a source with no function (C13), the sequence it
\* returns is empty, and its run ends with that error at once.
NeverRunsPastTheEnd ==
    Parsed => ~(phase = "runtimeerror" /\ error = "No Ret opcode encountered")
\* C12: the run of the source `int g ;` has ended with the error.
NoFunctionRunsPastTheEnd ==
    /\ family = "toplevel" /\ ast = <<Global(G)>>
    /\ phase = "runtimeerror" /\ error = "No Ret opcode encountered"
    /\ opcodes = <<>> /\ pc = 0
\* With a function in the program the statement holds: the error is
\* reached from parser-produced code only when the code is empty.
PastTheEndOnlyWhenEmpty ==
    (Parsed /\ phase = "runtimeerror" /\ error = "No Ret opcode encountered") =>
        opcodes = <<>>

\* A program that is top-level declarations followed by one function.
OneFunctionLast(items) ==
    /\ items # <<>>
    /\ items[Len(items)].k = "func"
    /\ \A i \in 1..(Len(items) - 1) : items[i].k = "global"
\* C13 as stated: parse succeeds only for zero or more top-level
\* declarations followed by exactly one function definition.  The code does
\* not keep this: the loop of parse_program takes declarations and
\* definitions of main in any number and order.
ParsesOnlyOneFunctionLast ==
    (family \in {"toplevel", "scope"} /\ Parsed /\ phase # "parseerror") =>
        OneFunctionLast(ast)
\* C13: two definitions of main have been parsed, into the code of both,
\* and run.
TwoMainsAreParsed ==
    /\ family = "scope" /\ Len(ast) = 2 /\ ast[1].k = "func" /\ ast[2].k = "func"
    /\ phase = "ok"
    /\ Len(opcodes) = 6 /\ opcodes[3] = OpRet /\ opcodes[6] = OpRet

\* C14 as stated: in both variants a top-level declaration that begins with
\* char is parsed exactly as the one that begins with int.  The base variant
\* does not: its parse_program matches Token::Int only.
IntForChar(toks) ==
    [i \in 1..Len(toks) |-> IF toks[i] = Tok("Char") THEN Tok("Int") ELSE toks[i]]
CharIsParsedLikeInt ==
    (family = "char" /\ Parsed) =>
        LET r == parse(variant, IntForChar(tokens))
        IN /\ (phase = "parseerror") = ~r.ok
           /\ opcodes = r.opcodes
\* C14: `char g ; int main ( ) { return g ; }` has been refused by the base
\* variant.
CharIsRefusedByBase ==
    /\ family = "char" /\ variant = "base" /\ ParseErrorOnly
    /\ tokens[1] = Tok("Char") /\ tokens[4] = Tok("Int")
    /\ parse(variant, IntForChar(tokens)).ok

Applied(op, a, b) ==
    CASE op = "Add" -> a + b
      [] op = "Sub" -> a - b
      [] op = "Mul" -> a * b
      [] op = "Div" -> IF (a < 0) = (b < 0) THEN Abs(a) \div Abs(b)
                       ELSE -(Abs(a) \div Abs(b))
\* The executor is about to apply a binary arithmetic instruction to two
\* values of the stack.
BinaryStep == Fetching /\ Fetched.op \in ArithOps /\ Len(stack) >= 2

\* C16: a binary arithmetic instruction that succeeds takes the top of the
\* stack as its right operand b and the value below as its left operand a,
\* puts a op b in their place and leaves the slots below as they were; and
\* [push 10, push 5, subtract, return] yields 5.
ArithmeticReplacesOperands ==
    /\ [](opcodes = IntArithmetic(variant) /\ family = "handbuilt" /\ Ended
             => phase = "ok" /\ result = IntVal(5))
    /\ [][BinaryStep /\ phase' = "running" =>
            LET b == Top(stack)
                a == Top(Pop(stack))
                x == Applied(Fetched.op, a.v, b.v)
            IN /\ Len(stack') = Len(stack) - 1
               /\ Pop(stack') = Pop(Pop(stack))
               /\ pc' = pc + 1
               /\ a.tag = b.tag /\ Top(stack').tag = a.tag
               /\ a.tag = "Int" =>
                    Top(stack').v = (IF InRange(x) THEN x ELSE Wrap(x))
               /\ a.tag = "Float" /\ Fetched.op \in {"Add", "Sub"} =>
                    Top(stack').v = x]_vars
ArithmeticReplacesOperandsWitness ==
    /\ family = "handbuilt" /\ phase = "running" /\ pc = 4
    /\ opcodes[2].arg = -7 /\ opcodes[3].arg = -2 /\ opcodes[4].op = "Sub"
    /\ Top(stack) = IntVal(-5) /\ Top(Pop(stack)) = IntVal(9)

\* The executor of the bonus variant is about to apply a binary arithmetic
\* instruction to an integer and a float.
MixedStep == BinaryStep /\ Top(stack).tag # Top(Pop(stack)).tag

\* C17: in the bonus variant a binary arithmetic instruction whose operands
\* carry different tags ends the run with a RuntimeError, and nothing is
\* pushed.
MixedOperandsAreAnError ==
    [][MixedStep => /\ phase' = "runtimeerror"
                    /\ error' \in {"Type mismatch in " \o Fetched.op, "Division by zero"}
                    /\ Len(stack') < Len(stack)
                    /\ \A i \in 1..Len(stack') : stack'[i] = stack[i]]_vars
MixedOperandsAreAnErrorWitness ==
    /\ variant = "bonus" /\ opcodes = TypeMismatch
    /\ phase = "runtimeerror" /\ error = "Type mismatch in Add" /\ stack = <<>>

\* C18: in the bonus variant a program that declares a local, stores to it
\* and loads it runs without a RuntimeError, and the nested-while program
\* of test_nested_while_loops returns 0.
LocalsAreStoredAndLoaded ==
    variant = "bonus" /\ family = "nested" =>
      /\ error \notin {"Invalid local offset in St", "Invalid local offset in Ld"}
      /\ Ended => phase = "ok" /\ result = IntVal(0)
\* The store of `i = 3` finds no slot for the local.
FirstStoreFindsNoSlot ==
    /\ variant = "bonus" /\ family = "nested" /\ run = 1
    /\ phase = "runtimeerror" /\ error = "Invalid local offset in St"
    /\ SubSeq(opcodes, 1, 2) = <<Op("IImm", 3), Op("St", 1)>>
    /\ pc = 1 /\ stack = <<>>
\* The same program in the base variant, which starts with a frame.
NestedWhileLoopsInBase ==
    variant = "base" /\ family = "nested" /\ Ended => phase = "ok" /\ result = IntVal(0)

\* The instruction of a literal token and of an operator token.
PushOf(tok) == IF tok.t = "Float" THEN Op("FImm", tok.n) ELSE Op("IImm", tok.n)
OperationOf(tok) ==
    CASE tok.t = "Plus" -> Plain("Add")
      [] tok.t = "Minus" -> Plain("Sub")
      [] tok.t = "Mul" -> Plain("Mul")
      [] tok.t = "Div" -> Plain("Div")

\* C19: in the bonus variant the tokens of a source that is only `l1 op l2;`
\* are parsed successfully into push l1, push l2, op.
BareExpressionIsParsed ==
    variant = "bonus" /\ family = "bare" /\ Parsed =>
      /\ phase # "parseerror"
      /\ opcodes = <<PushOf(tokens[1]), PushOf(tokens[3]), OperationOf(tokens[2])>>
\* `1 + 2;` is refused at its first token.
BareExpressionIsRefused ==
    /\ variant = "bonus" /\ family = "bare" /\ run = 1
    /\ tokens = <<TNum(1), Tok("Plus"), TNum(2), Tok("Semicolon"), TEOF>>
    /\ ParseErrorOnly /\ error = "Unexpected token at global scope"
    /\ parser.pos = 0

\* The executor has run the expression statements of a program of the stmt
\* family and is at the first instruction of its `return 0;`.
AfterStatements == family = "stmt" /\ phase = "running" /\ pc = Len(opcodes) - 3
ExpressionStatements == {i \in 1..Len(MainBody) : MainBody[i].k = "expr"}

\* C20: every expression statement, a bare assignment included, leaves its
\* value on the stack: after the statements the stack is one value higher
\* for each of them than it was before the first.
StatementLeavesItsValue ==
    AfterStatements => Len(stack) = Len(Frame(variant)) + Cardinality(ExpressionStatements)
\* `a = 2;` has stored 2 in a, and the stack is as high as before.
AssignmentLeavesNothing ==
    /\ AfterStatements /\ variant = "base" /\ run = 1
    /\ MainBody = <<Decl(<<A>>), ExprStmt(Asg(A, Num(2))), Return(Num(0))>>
    /\ opcodes = <<Op("Imm", 2), Op("St", 1), Op("Imm", 0), OpRet, OpRet>>
    /\ stack = [Frame("base") EXCEPT ![2] = IntVal(2)]
\* Each statement that is no assignment does leave one value.
OtherStatementsLeaveTheirValue ==
    AfterStatements =>
      Len(stack) = Len(Frame(variant))
                     + Cardinality({i \in ExpressionStatements : MainBody[i].e.k # "asg"})

\* The number a run of decimal digits denotes.
RECURSIVE DecimalValue(_)
DecimalValue(digits) ==
    IF digits = <<>> THEN 0
    ELSE 10 * DecimalValue(SubSeq(digits, 1, Len(digits) - 1)) + DigitVal(digits[Len(digits)])

\* C21: a digit run whose value is above the largest i64 makes tokenize
\* fail with a LexError and return no tokens; a digit run within the range
\* yields one integer token that carries exactly its value.
DigitRunIsItsValue ==
    family = "digits" =>
    \A d \in DigitRuns :
      source = LiteralText(d, <<" ">>) /\ phase # "source" =>
        IF DecimalValue(d) > IntMax
        THEN phase = "lexerror" /\ tokens = <<>> /\ opcodes = <<>>
        ELSE /\ phase # "lexerror"
             /\ tokens = <<Tok("Int"), TIdent(Main), Tok("LParen"), Tok("RParen"), Tok("LBrace"),
                           Tok("Return"), TNum(DecimalValue(d)), Tok("Semicolon"),
                           Tok("RBrace"), TEOF>>
DigitRunIsItsValueWitness ==
    /\ source = LiteralText(NumChars(IntMax + 1), <<" ">>)
    /\ phase = "lexerror" /\ tokens = <<>>
\* The largest i64 with zeros before it is read and returned.
LargestIsRead ==
    /\ source = LiteralText(<<"0", "0">> \o NumChars(IntMax), <<" ">>)
    /\ phase = "ok" /\ result = IntVal(IntMax)

\* A spelling of the form [A-Za-z_][A-Za-z0-9_]* that is no keyword.
Keywords ==
    {<<"i", "n", "t">>, <<"c", "h", "a", "r">>, <<"r", "e", "t", "u", "r", "n">>,
     <<"i", "f">>, <<"e", "l", "s", "e">>, <<"w", "h", "i", "l", "e">>}
IsIdentifier(sp) ==
    /\ sp # <<>> /\ sp \notin Keywords
    /\ sp[1] \in Lower \cup Upper \cup {"_"}
    /\ \A i \in 2..Len(sp) : sp[i] \in Lower \cup Upper \cup DigitSet \cup {"_"}
\* The characters of the inputs that tokenize has no arm for.
Unrecognised == {NonAsciiLetter, NonAsciiDigit, "$", "#"}

\* C22: every identifier token carries a spelling of the form
\* [A-Za-z_][A-Za-z0-9_]* that is no keyword, and a character outside the
\* recognised set makes tokenize fail with a LexError.
IdentifiersAreAscii ==
    /\ \A i \in 1..Len(tokens) : tokens[i].t = "Ident" => IsIdentifier(tokens[i].s)
    /\ family = "names" /\ phase # "source"
          /\ (\E i \in 1..Len(source) : source[i] \in Unrecognised)
        => phase = "lexerror" /\ tokens = <<>>
\* `int a<U+00E9> ;` is tokenized, the letter a part of the identifier.
NonAsciiLetterInIdentifier ==
    /\ family = "names" /\ phase = "tokens" /\ run = 1
    /\ source = <<"i", "n", "t", " ", "a", NonAsciiLetter, " ", ";">>
    /\ tokens = <<Tok("Int"), TIdent(<<"a", NonAsciiLetter>>), Tok("Semicolon"), TEOF>>
\* What holds of the code: an identifier token is no keyword, begins with an
\* ASCII letter or underscore and goes on with alphanumeric characters of
\* any script; an unrecognised character fails where a token would begin.
IdentifiersBeginInAscii ==
    /\ \A i \in 1..Len(tokens) :
         tokens[i].t = "Ident" =>
           LET sp == tokens[i].s
           IN /\ sp # <<>> /\ sp \notin Keywords /\ sp[1] \in IdentStart
              /\ \A j \in 2..Len(sp) : IsAlphanumeric(sp[j]) \/ sp[j] = "_"
    /\ family = "names" /\ phase # "source" =>
         (phase = "lexerror" <=>
            \E i \in 1..Len(source) :
              /\ source[i] \in Unrecognised
              /\ (i = 1 \/ source[i - 1] \notin IdentStart \cup DigitSet \cup Unrecognised
                     \/ source[i] \in {"$", "#"}))

\* C23: Jz and Jmp leave the stack as it is.  Jz sets the program counter
\* to its target when the top of the stack is zero and to pc + 1 otherwise,
\* and ends the run with a RuntimeError when the stack is empty; Jmp
\* changes the program counter and nothing else.
JumpsLeaveTheStack ==
    [][/\ Fetching /\ Fetched.op = "Jz" =>
            /\ stack' = stack
            /\ IF stack = <<>>
               THEN phase' = "runtimeerror" /\ error' = "Stack underflow in Jz"
               ELSE /\ phase' = "running"
                    /\ pc' = (IF Top(stack).v = 0 THEN Fetched.arg ELSE pc + 1)
       /\ Fetching /\ Fetched.op = "Jmp" =>
            /\ pc' = Fetched.arg
            /\ UNCHANGED <<stack, phase, opcodes, result, error>>]_vars
JumpsLeaveTheStackWitness ==
    /\ family = "handbuilt" /\ phase = "running"
    /\ opcodes = <<PushInt(variant, 0), Op("Jz", 3), OpRet, PushInt(variant, 5), OpRet>>
    /\ pc = 3 /\ stack = Append(Frame(variant), IntVal(0))
\* Jz on the empty stack, which the bonus variant starts with.
JzFindsNoValue ==
    /\ opcodes = <<Op("Jz", 0)>> /\ phase = "runtimeerror"
    /\ error = "Stack underflow in Jz" /\ stack = <<>>

\* C24: St(o) on a stack of height h >= 1 pops the top value v; when
\* 0 <= o < h - 1 it writes v into slot o, leaves the other remaining
\* slots as they were and goes on at pc + 1; when o is negative or
\* o >= h - 1 the run ends with a RuntimeError; on the empty stack it ends
\* with a stack-underflow RuntimeError.
StoreWritesOneSlot ==
    [][Fetching /\ Fetched.op = "St" =>
         IF stack = <<>>
         THEN phase' = "runtimeerror" /\ error' = "Stack underflow in St"
         ELSE LET h == Len(stack)
                  o == Fetched.arg
              IN IF 0 <= o /\ o < h - 1
                 THEN /\ phase' = "running" /\ pc' = pc + 1
                      /\ Len(stack') = h - 1
                      /\ stack'[o + 1] = stack[h]
                      /\ \A i \in 1..(h - 1) : i # o + 1 => stack'[i] = stack[i]
                 ELSE /\ phase' = "runtimeerror"
                      /\ error' = "Invalid local offset in St"]_vars
StoreWritesOneSlotWitness ==
    /\ family = "handbuilt" /\ phase = "running" /\ pc = 3
    /\ opcodes = <<PushInt(variant, 7), PushInt(variant, 8), Op("St", 0), OpRet>>
    /\ stack = [Append(Frame(variant), IntVal(7)) EXCEPT ![1] = IntVal(8)]
\* The offset of the slot the popped value was in is refused.
StoreToItsOwnSlot ==
    /\ variant = "base" /\ phase = "runtimeerror" /\ error = "Invalid local offset in St"
    /\ opcodes = <<PushInt(variant, 7), Op("St", FrameSize), OpRet>>
    /\ stack = Frame(variant)

\* C25: the first Ret that executes ends the run: it pops the top of the
\* stack, which is the result, and no instruction executes after it; a Ret
\* on the empty stack ends the run with a stack-underflow RuntimeError.
FirstRetEndsTheRun ==
    /\ [](phase = "ok" => pc < Len(opcodes) /\ opcodes[pc + 1].op = "Ret")
    /\ [][/\ Fetching /\ Fetched.op = "Ret" =>
               IF stack = <<>>
               THEN phase' = "runtimeerror" /\ error' = "Stack underflow in Ret"
               ELSE /\ phase' = "ok" /\ result' = Top(stack)
                    /\ stack' = Pop(stack) /\ pc' = pc
          /\ phase \in {"ok", "runtimeerror"} =>
               phase' \in {"source", "tokens"} /\ run' = 2]_vars
FirstRetEndsTheRunWitness ==
    /\ family # "handbuilt" /\ phase = "ok"
    /\ pc + 1 < Len(opcodes) - 1
    /\ \E i \in (pc + 2)..Len(opcodes) : opcodes[i].op # "Ret"
\* A Ret on the empty stack, which the bonus variant starts with.
RetFindsNoValue ==
    /\ opcodes = <<OpRet>> /\ phase = "runtimeerror"
    /\ error = "Stack underflow in Ret" /\ stack = <<>> /\ pc = 0

\* C26: whenever the program counter is not an index of the sequence (past
\* the end, or negative after a jump to a negative target), the run ends
\* with the RuntimeError "No Ret opcode encountered" and nothing is
\* fetched; the empty sequence ends that way at once.
LeavingTheSequenceIsAnError ==
    /\ [](family = "handbuilt" /\ opcodes = <<>> /\ Ended =>
             /\ phase = "runtimeerror" /\ error = "No Ret opcode encountered"
             /\ pc = 0 /\ stack = Frame(variant))
    /\ [][phase = "running" /\ (pc < 0 \/ pc >= Len(opcodes)) =>
             /\ phase' = "runtimeerror"
             /\ error' = "No Ret opcode encountered"
             /\ UNCHANGED <<stack, pc, result, opcodes>>]_vars
LeavingTheSequenceIsAnErrorWitness ==
    /\ family = "handbuilt" /\ opcodes = <<Op("Jmp", -1)>>
    /\ phase = "runtimeerror" /\ error = "No Ret opcode encountered"
    /\ pc = -1 /\ stack = Frame(variant)
\* A jump past the end, and the end reached instruction by instruction.
JumpPastTheEnd ==
    /\ opcodes = <<PushInt(variant, 1), Op("Jmp", 5)>>
    /\ phase = "runtimeerror" /\ error = "No Ret opcode encountered" /\ pc = 5

\* The layout of the code of a function body, as the grammar's rules give
\* it.  The declarators of the body in the order they are written, and the
\* slot of a name: the number of its last declarator, 0 for a name with
\* none.
RECURSIVE Declarators(_)
Declarators(ss) ==
    IF ss = <<>> THEN <<>>
    ELSE (IF ss[1].k = "decl" THEN ss[1].names ELSE <<>>) \o Declarators(Tail(ss))
SlotOf(name, names) ==
    LET at == {k \in 1..Len(names) : names[k] = name}
    IN IF at = {} THEN 0 ELSE CHOOSE k \in at : \A j \in at : j <= k
OperatorCode(op) ==
    CASE op = "Plus" -> Plain("Add")
      [] op = "Minus" -> Plain("Sub")
      [] op = "Mul" -> Plain("Mul")
      [] op = "Div" -> Plain("Div")
RECURSIVE ExprLayout(_, _, _)
ExprLayout(e, names, v) ==
    CASE e.k = "num" -> <<Op(IF v = "bonus" THEN "IImm" ELSE "Imm", e.n)>>
      [] e.k = "flt" -> <<Op("FImm", e.n)>>
      [] e.k = "var" -> <<Op("Ld", SlotOf(e.s, names))>>
      [] e.k = "par" -> ExprLayout(e.e, names, v)
      [] e.k = "asg" -> Append(ExprLayout(e.e, names, v), Op("St", SlotOf(e.s, names)))
      [] e.k = "bin" -> Append(ExprLayout(e.l, names, v) \o ExprLayout(e.r, names, v),
                               OperatorCode(e.op))
\* The code of statement s when its first instruction has address at.
RECURSIVE StmtLayout(_, _, _, _), StmtsLayout(_, _, _, _)
StmtLayout(s, at, names, v) ==
    CASE s.k = "decl" -> <<>>
      [] s.k = "expr" -> ExprLayout(s.e, names, v)
      [] s.k = "return" -> Append(ExprLayout(s.e, names, v), OpRet)
      [] s.k = "block" -> StmtsLayout(s.ss, at, names, v)
      [] s.k = "if" ->
           LET c == ExprLayout(s.c, names, v)
               t == StmtLayout(s.t, at + Len(c) + 1, names, v)
           IN c \o <<Op("Jz", at + Len(c) + 1 + Len(t))>> \o t
      [] s.k = "ifelse" ->
           LET c == ExprLayout(s.c, names, v)
               t == StmtLayout(s.t, at + Len(c) + 1, names, v)
               else_addr == at + Len(c) + 1 + Len(t) + 1
               f == StmtLayout(s.f, else_addr, names, v)
           IN c \o <<Op("Jz", else_addr)>> \o t \o <<Op("Jmp", else_addr + Len(f))>> \o f
      [] s.k = "while" ->
           LET c == ExprLayout(s.c, names, v)
               b == StmtLayout(s.b, at + Len(c) + 1, names, v)
           IN c \o <<Op("Jz", at + Len(c) + 1 + Len(b) + 1)>> \o b \o <<Op("Jmp", at)>>
StmtsLayout(ss, at, names, v) ==
    IF ss = <<>> THEN <<>>
    ELSE LET head == StmtLayout(ss[1], at, names, v)
         IN head \o StmtsLayout(Tail(ss), at + Len(head), names, v)
\* The code of main: its body from address 0, and the Ret after it.
MainLayout == Append(StmtsLayout(MainBody, 0, Declarators(MainBody), variant), OpRet)

\* C27: `if (c) S1 else S2` is laid out as the code of c, Jz, the code of S1,
\* Jmp, the code of S2, the Jz going to the first instruction of S2 and the
\* Jmp to the address after the last instruction of S2; `if (c) S1` has no
\* Jmp and its Jz goes to the address after S1.  No placeholder target is
\* left.
IfLayout ==
    family = "if" /\ Parsed =>
      /\ phase # "parseerror"
      /\ opcodes = MainLayout
      /\ \A i \in Jumps(opcodes) : opcodes[i].arg >= i
IfLayoutWitness ==
    /\ family = "if" /\ phase = "opcodes"
    /\ MainBody[2] = IfElse(Var(A), ExprStmt(Asg(A, Plus1(A))), Return(Num(2)))
    /\ SubSeq(opcodes, 1, 8)
         = <<Op("Ld", 1), Op("Jz", 7), Op("Ld", 1), PushInt(variant, 1), Plain("Add"),
             Op("St", 1), Op("Jmp", 9), PushInt(variant, 2)>>

\* C28: `while (c) S` is laid out as the code of c, Jz, the code of S, Jmp,
\* the Jmp going to the first instruction of c and the Jz to the address
\* after that Jmp.
WhileLayout ==
    family \in {"while", "nested"} /\ Parsed =>
      /\ phase # "parseerror"
      /\ opcodes = MainLayout
      /\ \A i \in Jumps(opcodes) :
           IF opcodes[i].op = "Jmp" THEN opcodes[i].arg < i - 1
           ELSE opcodes[i].arg >= i
WhileLayoutWitness ==
    /\ family = "nested" /\ phase = "opcodes"
    /\ opcodes = <<PushInt(variant, 3), Op("St", 1),
                   Op("Ld", 1), Op("Jz", 16),
                   Op("Ld", 1), PushInt(variant, 1), Plain("Sub"), Op("Jz", 13),
                   Op("Ld", 1), PushInt(variant, 1), Plain("Sub"), Op("St", 1), Op("Jmp", 4),
                   PushInt(variant, 0), Op("St", 1), Op("Jmp", 2),
                   Op("Ld", 1), OpRet, OpRet>>

\* The code of a body without jumps, each statement laid out with the
\* declarators written before it (those of a declaration included).
RECURSIVE ProgressiveLayout(_, _, _)
ProgressiveLayout(ss, names, v) ==
    IF ss = <<>> THEN <<>>
    ELSE LET now == IF ss[1].k = "decl" THEN names \o ss[1].names ELSE names
         IN StmtLayout(ss[1], 0, now, v) \o ProgressiveLayout(Tail(ss), now, v)

\* C29: within one function body the k-th local declarator processed, a
\* re-declaration counted, is given offset k, from 1 on; after a name is
\* declared again every later load and store of it uses the newest offset,
\* and no error is reported.
DeclaratorsCountUp ==
    family = "decls" /\ Parsed =>
      /\ phase # "parseerror"
      /\ parser.local_offset = Len(Declarators(MainBody))
      /\ DOMAIN parser.locals = {Declarators(MainBody)[k] : k \in 1..Len(Declarators(MainBody))}
      /\ \A name \in DOMAIN parser.locals :
           parser.locals[name] = SlotOf(name, Declarators(MainBody))
      /\ opcodes = Append(ProgressiveLayout(MainBody, <<>>, variant), OpRet)
DeclaratorsCountUpWitness ==
    /\ family = "decls" /\ phase = "opcodes"
    /\ MainBody = <<Decl(<<A>>), ExprStmt(Asg(A, Num(1))), Decl(<<A>>), ExprStmt(Asg(A, Num(2))),
                    Return(Var(A))>>
    /\ opcodes = <<PushInt(variant, 1), Op("St", 1), PushInt(variant, 2), Op("St", 2),
                   Op("Ld", 2), OpRet, OpRet>>
    /\ parser.local_offset = 2

\* C30: when a name is declared as a global and as a local of main, every
\* load and store of it after the local declaration uses the local's
\* offset; the global's offset, 0, is used for a name that is not in the
\* local scope.
LocalHidesGlobal ==
    family = "shadow" /\ Parsed =>
      /\ phase # "parseerror"
      /\ A \in DOMAIN parser.globals /\ parser.globals[A] = 0
      /\ opcodes = Append(ProgressiveLayout(ast[2].body, <<>>, variant), OpRet)
LocalHidesGlobalWitness ==
    /\ family = "shadow" /\ phase = "opcodes"
    /\ A \in DOMAIN parser.globals /\ A \in DOMAIN parser.locals
    /\ opcodes = <<PushInt(variant, 1), Op("St", 0), PushInt(variant, 2), Op("St", 1),
                   Op("Ld", 1), OpRet, OpRet>>

\* The statements of a body with every block replaced by its statements.
RECURSIVE Flatten(_)
Flatten(ss) ==
    IF ss = <<>> THEN <<>>
    ELSE (IF ss[1].k = "block" THEN Flatten(ss[1].ss) ELSE <<ss[1]>>) \o Flatten(Tail(ss))

\* C31: a block opens no scope: a local declared inside a block is resolved,
\* with the same offset, in the statements after the block's closing brace,
\* and the offset counter is not rewound at the end of the block.
BlockOpensNoScope ==
    family = "blocks" /\ Parsed =>
      /\ phase # "parseerror"
      /\ parser.local_offset = Len(Declarators(Flatten(MainBody)))
      /\ \A name \in DOMAIN parser.locals :
           parser.locals[name] = SlotOf(name, Declarators(Flatten(MainBody)))
      /\ opcodes = Append(ProgressiveLayout(Flatten(MainBody), <<>>, variant), OpRet)
BlockOpensNoScopeWitness ==
    /\ family = "blocks" /\ phase = "opcodes"
    /\ MainBody[2] = Block(<<Decl(<<B>>), ExprStmt(Asg(B, Num(3)))>>)
    /\ parser.locals[B] = 2 /\ parser.locals[I] = 3
    /\ opcodes = <<PushInt(variant, 3), Op("St", 2), Op("Ld", 2), Op("St", 3),
                   Op("Ld", 2), PushInt(variant, 10), Plain("Mul"), Op("Ld", 3), Plain("Add"),
                   OpRet, OpRet>>

\* The offsets of the symbols of the local scope.
LocalOffsets == {parser.locals[name] : name \in DOMAIN parser.locals}
\* The positions of the loads and stores of a parsed sequence.
Accesses == {i \in DOMAIN opcodes : opcodes[i].op \in {"Ld", "St"}}

\* C32: the offset 0 of a global is a placeholder: no load or store of a
\* parsed sequence takes its stack index from a global symbol's offset, that
\* is, every load and store carries the offset of a local.
GlobalOffsetIsNoAddress ==
    family = "globals" /\ Parsed /\ phase # "parseerror" =>
      \A i \in Accesses : opcodes[i].arg \in LocalOffsets
\* The store of `g = 3;` carries the offset of the global g and has written
\* slot 0 of the stack.
GlobalOffsetIsTheAddress ==
    /\ family = "globals" /\ variant = "base" /\ phase = "running" /\ pc = 2
    /\ ast[3].body[1] = ExprStmt(Asg(G, Num(3)))
    /\ G \in DOMAIN parser.globals /\ G \notin DOMAIN parser.locals
    /\ opcodes[2] = Op("St", parser.globals[G])
    /\ stack[1] = IntVal(3) /\ Len(stack) = FrameSize

\* C33: every offset the parser gives a local, and so the operand of every
\* load and store it emits, is below the size of the frame the executor of
\* the base variant reserves, however many locals main declares.
LocalsFitTheFrame ==
    family = "frame" /\ Parsed /\ phase # "parseerror" =>
      /\ \A offset \in LocalOffsets : offset < FrameSize
      /\ \A i \in Accesses : opcodes[i].arg < FrameSize
\* The store to the 32nd local of main finds no slot in the frame.
LocalOutsideTheFrame ==
    /\ family = "frame" /\ variant = "base" /\ phase = "runtimeerror"
    /\ parser.local_offset = FrameSize
    /\ parser.locals[LocalName(FrameSize)] = FrameSize
    /\ opcodes[2] = Op("St", FrameSize) /\ pc = 1
    /\ error = "Invalid local offset in St"
\* The store to the 31st local finds the last slot of the frame.
LastSlotOfTheFrame ==
    /\ family = "frame" /\ variant = "base" /\ phase = "ok"
    /\ parser.local_offset = FrameSize - 1
    /\ result = IntVal(7)

\* vm::execute has been entered with a sequence that parse produced.
Executing == Parsed /\ phase \in {"running", "ok", "runtimeerror", "panic"}
\* An assignment is used as a value: its identifier does not begin a
\* statement.
AssignmentAsValue ==
    \E i \in 3..Len(tokens) :
      /\ tokens[i] = Tok("Assign")
      /\ tokens[i - 2].t \notin {"Semicolon", "LBrace", "RBrace", "RParen", "Else"}

\* C34: while the base variant executes a parsed sequence the stack is never
\* lower than the 32 slots of the frame: no pop removes a frame slot.
FrameIsNeverPopped ==
    variant = "base" /\ Executing => Len(stack) >= FrameSize
\* C34: the second store of `a = b = 7;` has popped a slot of the frame.
FrameSlotIsPopped ==
    /\ family = "straight" /\ variant = "base" /\ phase = "running" /\ pc = 3
    /\ MainBody[2] = ExprStmt(Asg(A, Asg(B, Num(7))))
    /\ SubSeq(opcodes, 1, 3) = <<Op("Imm", 7), Op("St", 2), Op("St", 1)>>
    /\ Len(stack) = FrameSize - 1
\* C34: the Ret that parse_program appends to main has popped a slot of the
\* frame in the run of `int main() { }`.
ImplicitRetPopsTheFrame ==
    /\ family = "toplevel" /\ variant = "base" /\ phase = "ok"
    /\ ast = <<Func(Main, <<>>)>> /\ opcodes = <<OpRet>>
    /\ Len(stack) = FrameSize - 1 /\ result = IntVal(0)
\* The frame is whole until the Ret that ends the run, which takes at most
\* one slot of it, in every run of a program that uses no assignment as a
\* value.
FrameIsKeptByStatements ==
    variant = "base" /\ Executing /\ ~AssignmentAsValue =>
      Len(stack) >= (IF phase = "ok" THEN FrameSize - 1 ELSE FrameSize)

\* C35: an assignment has the assigned value as its value: a run of the
\* base variant that ends with Ok has returned what the program returns in
\* the language (5 for `return a = 5;`), and every local holds the value the
\* program gave it (7 in a and in b after `a = b = 7;`).
AssignmentHasItsValue ==
    (family = "assign" /\ variant = "base" /\ phase = "ok") =>
      /\ result = IntVal(Meaning(MainBody).v)
      /\ \A name \in DOMAIN parser.locals :
           stack[parser.locals[name] + 1] = IntVal(Meaning(MainBody).env[name])
\* `return a = 5;` has stored 5 to a and returned the topmost slot of the
\* frame, 0.
ReturnOfAssignmentIsNotItsValue ==
    /\ family = "assign" /\ variant = "base" /\ phase = "ok"
    /\ MainBody = <<Decl(<<A>>), Return(Asg(A, Num(5)))>>
    /\ opcodes = <<Op("Imm", 5), Op("St", 1), OpRet, OpRet>>
    /\ stack[2] = IntVal(5) /\ result = IntVal(0)
\* `a = b = 7;` has stored 7 to b and the topmost slot of the frame, 0, to a.
ChainStoresTheFrame ==
    /\ family = "assign" /\ variant = "base" /\ phase = "ok"
    /\ MainBody[2] = ExprStmt(Asg(A, Asg(B, Num(7))))
    /\ stack[2] = IntVal(0) /\ stack[3] = IntVal(7) /\ result = IntVal(7)
\* Statement by statement, `a = 1; b = 2; return a * 10 + b;` does what it
\* means.
PlainAssignmentsStore ==
    (/\ family = "assign" /\ variant = "base" /\ phase = "ok"
     /\ MainBody[2] = ExprStmt(Asg(A, Num(1)))) =>
      result = IntVal(12) /\ result = IntVal(Meaning(MainBody).v)

\* The three errors of an instruction that finds no value at all.
EmptyStackErrors ==
    {"Stack underflow in Ret", "Stack underflow in Jz", "Stack underflow in St"}

\* C36 as stated: in the base variant the stack is not empty in any state
\* of a run of vm::execute, whatever the sequence.
StackIsNeverEmpty ==
    (variant = "base" /\ phase \in {"running", "ok", "runtimeerror", "panic"}) => stack # <<>>
\* C36: in the base variant, whatever the sequence, an instruction is never
\* fetched with the stack empty, so Ret, Jz and St never end the run with a
\* stack underflow; the stack can be empty only once the run has ended.
StackIsNeverFoundEmpty ==
    variant = "base" =>
      /\ phase = "running" => stack # <<>>
      /\ phase = "runtimeerror" => error \notin EmptyStackErrors
\* A store fetched with one value on the stack, the last of the frame.
StoreFindsTheLastSlot ==
    /\ variant = "base" /\ family = "handbuilt" /\ Fetching
    /\ Fetched.op = "St" /\ Len(stack) = 1
\* The store has popped the last value and ended the run with an error
\* that is not an underflow.
LastSlotIsPopped ==
    /\ variant = "base" /\ family = "handbuilt" /\ phase = "runtimeerror"
    /\ opcodes = <<Op("St", 0), Op("Jmp", 0)>>
    /\ stack = <<>> /\ error = "Invalid local offset in St"
\* The underflow of a binary instruction is reached in the base variant.
BinaryFindsOneValue ==
    /\ variant = "base" /\ family = "handbuilt" /\ phase = "runtimeerror"
    /\ Len(stack) = 1 /\ error = "Stack underflow in Add"

\* A body with every global's name replaced by the first global's: what the
\* body means when the globals are one variable.
GlobalNames == {G, A}
Shared(s) == IF s \in GlobalNames THEN G ELSE s
RECURSIVE SharedExpr(_)
SharedExpr(e) ==
    CASE e.k = "var" -> Var(Shared(e.s))
      [] e.k = "asg" -> Asg(Shared(e.s), SharedExpr(e.e))
      [] e.k = "bin" -> Bin(e.op, SharedExpr(e.l), SharedExpr(e.r))
      [] e.k = "par" -> Par(SharedExpr(e.e))
      [] OTHER -> e
SharedBody(ss) ==
    [i \in DOMAIN ss |->
       CASE ss[i].k = "expr" -> ExprStmt(SharedExpr(ss[i].e))
         [] ss[i].k = "return" -> Return(SharedExpr(ss[i].e))
         [] OTHER -> ss[i]]

\* C37: every global is addressed at slot 0 and no local has offset 0: in
\* the base variant a store to a global is seen by a later load of any
\* global, never by a load of a local, so a program with two globals
\* returns what it means with the two globals taken for one variable.
GlobalsShareSlotZero ==
    /\ Parsed => 0 \notin LocalOffsets
    /\ family = "globals" /\ Parsed =>
         /\ phase # "parseerror"
         /\ DOMAIN parser.globals = GlobalNames
         /\ \A name \in GlobalNames : parser.globals[name] = 0
         /\ opcodes = Append(ProgressiveLayout(ast[3].body, <<>>, variant), OpRet)
         /\ \A i \in Accesses : opcodes[i].arg = 0 \/ opcodes[i].arg \in LocalOffsets
         /\ variant = "base" /\ phase \in {"runtimeerror", "panic"} => FALSE
         /\ variant = "base" /\ phase = "ok" =>
              result = IntVal(Meaning(SharedBody(ast[3].body)).v)
\* `g = 3; return a;` has returned 3, and `int b; g = 3; return b;` 0.
GlobalsShareSlotZeroWitness ==
    /\ family = "globals" /\ variant = "base" /\ phase = "ok"
    /\ \/ /\ ast[3].body = <<ExprStmt(Asg(G, Num(3))), Return(Var(A))>>
          /\ opcodes = <<Op("Imm", 3), Op("St", 0), Op("Ld", 0), OpRet, OpRet>>
          /\ result = IntVal(3)
       \/ /\ ast[3].body = <<Decl(<<B>>), ExprStmt(Asg(G, Num(3))), Return(Var(B))>>
          /\ opcodes = <<Op("Imm", 3), Op("St", 0), Op("Ld", 1), OpRet, OpRet>>
          /\ result = IntVal(0)
\* In the bonus variant the first store to a global finds no slot 0.
GlobalStoreFindsNoSlot ==
    /\ family = "globals" /\ variant = "bonus" /\ phase = "runtimeerror"
    /\ opcodes[2] = Op("St", 0) /\ pc = 1 /\ stack = <<>>
    /\ error = "Invalid local offset in St"

\* The executor is about to apply a binary arithmetic instruction to two
\* integers, the divisor of a division not zero.
IntegerStep ==
    /\ BinaryStep
    /\ Top(stack).tag = "Int" /\ Top(Pop(stack)).tag = "Int"
    /\ Fetched.op = "Div" => Top(stack).v # 0

\* C38: a binary arithmetic instruction on two integers, the divisor not
\* zero, completes with an integer pushed or with a RuntimeError returned:
\* no pair of operands makes vm::execute abort.
ArithmeticNeverAborts ==
    [][IntegerStep => phase' \in {"running", "runtimeerror"}]_vars
\* The division of the least integer by -1 has ended the run with a panic.
DivisionOverflowAborts ==
    /\ family = "handbuilt" /\ phase = "panic"
    /\ opcodes = <<PushInt(variant, IntMin), PushInt(variant, -1), Plain("Div"), OpRet>>
    /\ pc = 2 /\ error = "attempt to divide with overflow"
\* The sum of the greatest integer and 1 has ended the run with a panic, or
\* gone on with the least integer, as the build has it.
SumOverflowAborts ==
    /\ family = "handbuilt" /\ phase = "panic"
    /\ opcodes = <<PushInt(variant, IntMax), PushInt(variant, 1), Plain("Add"), OpRet>>
    /\ error = "arithmetic overflow"
SumOverflowWraps ==
    /\ family = "handbuilt" /\ phase = "ok"
    /\ opcodes = <<PushInt(variant, IntMax), PushInt(variant, 1), Plain("Add"), OpRet>>
    /\ result = IntVal(IntMin)
\* A step on two integers whose result is in the range goes on.
ArithmeticInRangeGoesOn ==
    [][IntegerStep /\ ~Overflows => phase' = "running"]_vars

\* A parser with its cursor at token i of the token sequence, every
\* identifier of the sequence in its local scope.
CursorAt(i) ==
    [new(variant, tokens) EXCEPT
       !.pos = i,
       !.locals = [name \in {tokens[j].s : j \in {k \in DOMAIN tokens : tokens[k].t = "Ident"}}
                     |-> 1]]
\* q is the parser after a step from p that consumed a token or failed.
Progress(p, q) == q.err # "" \/ q.pos > p.pos

\* C39: parse ends on every token sequence.  From every cursor position of
\* every token sequence, an iteration of the top-level loop, of the loop of
\* a function body or a block, of the skip loop of a global declaration, of
\* the declarator loop and of the two operator loops consumes a token or
\* fails, and so does the factor parsed where the assignment lookahead put
\* the cursor back; parse itself ends with its cursor inside the sequence
\* or one token past a missing end.
ParseAdvances ==
    /\ phase = "tokens" =>
         \A i \in 0..Len(tokens) :
           LET p == CursorAt(i)
           IN /\ current(p) # TEOF => Progress(p, ProgramItem(p))
              /\ current(p) # Tok("RBrace") => Progress(p, parse_stmt(p))
              /\ (current(p) # Tok("Semicolon") /\ current(p) # TEOF) =>
                   Advance(p).pos > p.pos /\ SkipLoop(p).pos > p.pos
              /\ Progress(p, DeclLoop(p))
              /\ current(p).t \in {"Plus", "Minus"} =>
                   Progress(p, parse_term(Advance(p))) /\ Progress(p, AdditiveLoop(p))
              /\ current(p).t \in {"Mul", "Div"} =>
                   Progress(p, parse_factor(Advance(p))) /\ Progress(p, TermLoop(p))
              /\ Progress(p, parse_factor(p))
              /\ Progress(p, parse_assignment(p))
    /\ (Parsed /\ phase \in {"opcodes", "parseerror"}) =>
         /\ parser.pos <= Len(tokens) + 1
         /\ phase = "opcodes" => current(parser) = TEOF
\* A function body that the tokens end in, its loop at the end of the
\* tokens: the statement parsed there fails, and parse has ended with
\* an error.
ParseAdvancesWitness ==
    /\ family = "mutated" /\ phase = "parseerror"
    /\ current(parser) = TEOF /\ parser.err # ""
    /\ \E i \in DOMAIN tokens :
         /\ tokens[i] = Tok("LBrace")
         /\ \A j \in (i + 1)..Len(tokens) : tokens[j] # Tok("RBrace")
    /\ parse_stmt(CursorAt(parser.pos)).err # ""
    /\ parse_stmt(CursorAt(parser.pos)).pos = parser.pos

\* A loop of the while family that counts i down to 0, its condition i and
\* its body one or two assignment statements, which leave the stack as high
\* as they found it.
CountingLoop ==
    /\ family = "while" /\ variant = "base" /\ Parsed
    /\ MainBody[4].c = Var(I)
    /\ MainBody[4].b \in {ExprStmt(Asg(I, Minus1(I))),
                          Block(<<ExprStmt(Asg(N, Plus1(N))), ExprStmt(Asg(I, Minus1(I)))>>)}
\* The values the condition i had when it was evaluated, from the first
\* value k down: n of them.
ConditionValues(k, n) == [j \in 1..n |-> IntVal(k + 1 - j)]
\* The stack above the frame.
AboveFrame == SubSeq(stack, FrameSize + 1, Len(stack))

IfConditionValueStays ==
    (family = "if" /\ variant = "base" /\ phase = "ok" /\ ~AssignmentAsValue) =>
      Len(stack) > FrameSize
====
